---- MODULE Spec2Model ----
(***************************************************************************)
(* Data pipeline of the bike-demand forecaster: the three DataLoader       *)
(* classes of the repository (src/data-loader.js holds two, the third is   *)
(* src/unnamed/part_000) and the load handlers of src/app.js that drive    *)
(* them.                                                                   *)
(*                                                                         *)
(*   variant "A"  src/data-loader.js lines 6-352                           *)
(*   variant "B"  src/data-loader.js lines 359-760                         *)
(*   variant "U"  src/unnamed/part_000                                     *)
(***************************************************************************)
EXTENDS Integers, Sequences, FiniteSets, TLC

(***************************************************************************)
(* Program constants.                                                      *)
(***************************************************************************)
sequenceLength == 24
predictionLength == 24

(***************************************************************************)
(* Bounds of the model.                                                    *)
(***************************************************************************)
\* files of 0..SmallRows rows and of (lookback+horizon-1)..MaxRows rows
SmallRows == 2
MaxRows == 53
\* load requests in one session
MaxLoads == 2
\* characters in a text line given to the line parsers
MaxLineLen == 4
\* characters in a line of a file text, and data lines of a file text
MaxFileLineLen == 1
MaxDataLines == 2
\* the largest hour of the first row of a pair of consecutive rows
MaxHour == 23
\* tf models made in one life of an LSTMModel
MaxModels == 3
\* training and prediction requests in one session
MaxTrains == 2
MaxPredicts == 1
\* dispose() calls BikedemandApp.dispose() makes on one object
MaxDisposals == 2

(***************************************************************************)
(* JavaScript numbers: finite rationals n/d (d > 0, lowest terms), NaN,    *)
(* +Infinity and -Infinity.  Rounding of IEEE doubles is not modelled.     *)
(***************************************************************************)
Abs(x) == IF x < 0 THEN -x ELSE x

RECURSIVE GCD(_, _)
GCD(a, b) == IF b = 0 THEN a ELSE GCD(b, a % b)

Rat(n, d) ==
  LET s == IF d < 0 THEN -1 ELSE 1
      g == GCD(Abs(n), Abs(d))
  IN  [t |-> "fin", n |-> (s * n) \div g, d |-> (s * d) \div g]

Num(k) == [t |-> "fin", n |-> k, d |-> 1]
NaN == [t |-> "nan", n |-> 0, d |-> 1]
PInf == [t |-> "pinf", n |-> 0, d |-> 1]
NInf == [t |-> "ninf", n |-> 0, d |-> 1]

isNaN(x) == x.t = "nan"
isFinite(x) == x.t = "fin"
\* JavaScript truthiness of a number: NaN and 0 are falsy
Truthy(x) == x.t \in {"pinf", "ninf"} \/ (x.t = "fin" /\ x.n # 0)

jsNeg(x) ==
  CASE x.t = "fin" -> Rat(-x.n, x.d)
    [] x.t = "pinf" -> NInf
    [] x.t = "ninf" -> PInf
    [] OTHER -> NaN

jsAdd(a, b) ==
  CASE isNaN(a) \/ isNaN(b) -> NaN
    [] a.t = "fin" /\ b.t = "fin" -> Rat(a.n * b.d + b.n * a.d, a.d * b.d)
    [] a.t = "fin" -> b
    [] b.t = "fin" -> a
    [] a.t = b.t -> a
    [] OTHER -> NaN

jsSub(a, b) == jsAdd(a, jsNeg(b))

Sign(x) ==
  CASE x.t = "pinf" -> 1
    [] x.t = "ninf" -> -1
    [] x.t = "fin" -> IF x.n < 0 THEN -1 ELSE 1
    [] OTHER -> 0

jsMul(a, b) ==
  CASE isNaN(a) \/ isNaN(b) -> NaN
    [] a.t = "fin" /\ b.t = "fin" -> Rat(a.n * b.n, a.d * b.d)
    [] (a.t = "fin" /\ a.n = 0) \/ (b.t = "fin" /\ b.n = 0) -> NaN
    [] OTHER -> IF Sign(a) * Sign(b) > 0 THEN PInf ELSE NInf

jsDiv(a, b) ==
  CASE isNaN(a) \/ isNaN(b) -> NaN
    [] a.t = "fin" /\ b.t = "fin" ->
         IF b.n # 0 THEN Rat(a.n * b.d, a.d * b.n)
         ELSE IF a.n = 0 THEN NaN
         ELSE IF a.n > 0 THEN PInf ELSE NInf
    [] a.t = "fin" -> Num(0)
    [] b.t = "fin" -> IF Sign(a) * Sign(b) > 0 THEN PInf ELSE NInf
    [] OTHER -> NaN

\* a < b on numbers that are not NaN
jsLess(a, b) ==
  CASE a.t = "ninf" -> b.t # "ninf"
    [] a.t = "pinf" -> FALSE
    [] b.t = "ninf" -> FALSE
    [] b.t = "pinf" -> TRUE
    [] OTHER -> a.n * b.d < b.n * a.d

jsMin2(a, b) == IF isNaN(a) \/ isNaN(b) THEN NaN ELSE IF jsLess(b, a) THEN b ELSE a
jsMax2(a, b) == IF isNaN(a) \/ isNaN(b) THEN NaN ELSE IF jsLess(a, b) THEN b ELSE a

\* the least and the greatest of values[lo..hi] (by halves, to keep the
\* evaluation shallow)
RECURSIVE MinOver(_, _, _)
MinOver(values, lo, hi) ==
  IF lo > hi THEN PInf
  ELSE IF lo = hi THEN jsMin2(PInf, values[lo])
  ELSE LET mid == (lo + hi) \div 2
       IN  jsMin2(MinOver(values, lo, mid), MinOver(values, mid + 1, hi))

RECURSIVE MaxOver(_, _, _)
MaxOver(values, lo, hi) ==
  IF lo > hi THEN NInf
  ELSE IF lo = hi THEN jsMax2(NInf, values[lo])
  ELSE LET mid == (lo + hi) \div 2
       IN  jsMax2(MaxOver(values, lo, mid), MaxOver(values, mid + 1, hi))

\* Math.min(...values), Math.max(...values)
MathMin(values) == MinOver(values, 1, Len(values))
MathMax(values) == MaxOver(values, 1, Len(values))

\* Math.floor(n * r) for the fraction r = pct/100
FloorFrac(n, pct) == (n * pct) \div 100

\* An array, or an object with the given keys, built element by element
\* (the value is computed once, when it is built)
Array(f) == SubSeq(f, 1, Len(f))
Object(f) == f @@ << >>

\* Array.prototype.filter (keep[i] tells whether element i stays)
RECURSIVE FilterRange(_, _, _, _)
FilterRange(s, keep, lo, hi) ==
  IF lo > hi THEN << >>
  ELSE IF lo = hi THEN (IF keep[lo] THEN <<s[lo]>> ELSE << >>)
  ELSE LET mid == (lo + hi) \div 2
       IN  FilterRange(s, keep, lo, mid) \o FilterRange(s, keep, mid + 1, hi)

FilterFrom(s, keep, i) == FilterRange(s, keep, i, Len(s))

\* Array.prototype.slice(from, to), 0-based, to exclusive
Slice(s, from, to) == Array([k \in 1..(IF to > from THEN to - from ELSE 0) |-> s[from + k]])

(***************************************************************************)
(* Raw cells.  A cell of a numeric column holds either the decimal text of *)
(* an integer (Numeral) or a text that is no number (Text); a Date cell    *)
(* holds "dd/mm/yyyy" (DateText) or a text that is no date.  loadCSV trims *)
(* every cell, so the later trim() calls change nothing.                   *)
(***************************************************************************)
Numeral(k) == [kind |-> "numeral", k |-> k]
Text == [kind |-> "text", k |-> 0]
DateText(d, m, y) == [kind |-> "date", d |-> d, m |-> m, y |-> y]

\* parseFloat / parseInt of a cell
parseFloat(cell) == IF cell.kind = "numeral" THEN Num(cell.k) ELSE NaN
parseInt(cell) == IF cell.kind = "numeral" THEN Num(cell.k) ELSE NaN

\* Date.prototype.getTime up to an order-preserving change of unit:
\* a calendar date is numbered by (year, month, day)
DayNumber(y, m, d) == Num((y * 12 + (m - 1)) * 31 + (d - 1))

\* new Date(`${parts[2]}-${parts[1]}-${parts[0]}`).getTime() for parts = cell.split('/')
getTimeDMY(cell) ==
  IF cell.kind = "date" /\ cell.m \in 1..12 /\ cell.d \in 1..31
  THEN DayNumber(cell.y, cell.m, cell.d) ELSE NaN

\* new Date(cell).getTime(): the text "a/b/yyyy" is read as month a, day b
getTimeMDY(cell) ==
  IF cell.kind = "date" /\ cell.d \in 1..12 /\ cell.m \in 1..31
  THEN DayNumber(cell.y, cell.d, cell.m) ELSE NaN

(***************************************************************************)
(* The input files.  Row i of a file is hour (i-1) mod 24 of the day       *)
(* (i-1) div 24 counted from 30/11/2017; one row (pos) may be damaged.     *)
(***************************************************************************)
Kinds == {"clean", "badTemp", "badHour", "badDate", "spike", "reversed", "tieReversed"}

DayCell(k) ==
  CASE k = 0 -> DateText(30, 11, 2017)
    [] OTHER -> DateText(k, 12, 2017)

RawRow(i, kind, pos) ==
  LET hit == (i = pos) IN
  ("Date" :> (IF kind = "badDate" /\ hit THEN Text ELSE DayCell((i - 1) \div 24)))
  @@ ("Hour" :> (IF kind = "badHour" /\ hit THEN Text
                 ELSE IF kind = "tieReversed" THEN Numeral(0)
                 ELSE Numeral((i - 1) % 24)))
  @@ ("Rented Bike Count" :> (IF kind = "spike" /\ hit THEN Numeral(100)
                              ELSE Numeral((i * 5) % 11)))
  @@ ("Temperature(C)" :> (IF kind = "badTemp" /\ hit THEN Text
                           ELSE IF kind = "spike" /\ hit THEN Numeral(100)
                           ELSE Numeral(((i * 3) % 7) - 2)))
  @@ ("Humidity(%)" :> Numeral(40 + (i % 4)))
  @@ ("Wind speed (m/s)" :> Numeral(i % 3))
  @@ ("Visibility (10m)" :> Numeral(2000))
  @@ ("Dew point temperature(C)" :> Numeral(-(i % 5)))
  @@ ("Solar Radiation (MJ/m2)" :> Numeral(0))
  @@ ("Rainfall(mm)" :> Numeral(0))
  @@ ("Snowfall (cm)" :> Numeral(i % 2))
  @@ ("Seasons" :> (IF i <= 24 THEN "Autumn" ELSE "Winter"))
  @@ ("Holiday" :> (IF (i - 1) \div 24 = 1 THEN "Holiday" ELSE "No Holiday"))
  @@ ("Functioning Day" :> "Yes")

Reverse(s) == Array([k \in 1..Len(s) |-> s[Len(s) + 1 - k]])

FileRows(n, kind, pos) ==
  LET rows == Array([i \in 1..n |-> RawRow(i, kind, pos)])
  IN  IF kind \in {"reversed", "tieReversed"} THEN Reverse(rows) ELSE rows

RowCounts == (0..SmallRows) \cup ((sequenceLength + predictionLength - 1)..MaxRows)

\* the damaged row is the first or the last one
Inputs ==
  { [n |-> n, kind |-> k, pos |-> 1] : n \in RowCounts, k \in Kinds }
  \cup { [n |-> n, kind |-> k, pos |-> MaxRows] :
           n \in RowCounts, k \in {"badTemp", "badHour", "badDate", "spike"} }

InputFile(in) == FileRows(in.n, in.kind, IF in.pos > in.n THEN in.n ELSE in.pos)

(***************************************************************************)
(* Array.prototype.sort with the comparator of preprocessData.  The        *)
(* comparator's result v is used as ToNumber(v), NaN counting as +0.  With *)
(* a consistent comparator every stable algorithm gives the same order;    *)
(* with an inconsistent one the order is implementation-defined, and the   *)
(* model offers two algorithms, insertion sort with a linear and with a    *)
(* binary search of the insertion point.                                   *)
(***************************************************************************)
SortImpls == {"linearInsertion", "binaryInsertion"}

\* (a, b) => a.date.getTime() === b.date.getTime() ? a.hour - b.hour
\*                                                  : a.date.getTime() - b.date.getTime()
compareRows(a, b) ==
  IF ~isNaN(a.date) /\ ~isNaN(b.date) /\ a.date = b.date
  THEN jsSub(a.hour, b.hour)
  ELSE jsSub(a.date, b.date)

CmpSign(v) == IF isNaN(v) THEN 0 ELSE IF v.t = "fin" /\ v.n = 0 THEN 0 ELSE Sign(v)

\* linear insertion: x moves left past every element that compares greater;
\* the result is the last index in lo..hi whose element does not (0 if none)
RECURSIVE LastNotGreater(_, _, _, _)
LastNotGreater(sorted, x, lo, hi) ==
  IF lo > hi THEN 0
  ELSE IF lo = hi THEN (IF CmpSign(compareRows(sorted[lo], x)) > 0 THEN 0 ELSE lo)
  ELSE LET mid == (lo + hi) \div 2
           r == LastNotGreater(sorted, x, mid + 1, hi)
       IN  IF r # 0 THEN r ELSE LastNotGreater(sorted, x, lo, mid)

\* binary insertion: the 0-based insertion point of x in sorted[lo..hi)
RECURSIVE BinarySearch(_, _, _, _)
BinarySearch(sorted, x, lo, hi) ==
  IF lo < hi
  THEN LET mid == lo + ((hi - lo) \div 2)
       IN  IF CmpSign(compareRows(x, sorted[mid + 1])) < 0
           THEN BinarySearch(sorted, x, lo, mid)
           ELSE BinarySearch(sorted, x, mid + 1, hi)
  ELSE lo

InsertSorted(sorted, x, impl) ==
  LET at == IF impl = "linearInsertion"
            THEN LastNotGreater(sorted, x, 1, Len(sorted))
            ELSE BinarySearch(sorted, x, 0, Len(sorted))
  IN  SubSeq(sorted, 1, at) \o <<x>> \o SubSeq(sorted, at + 1, Len(sorted))

\* s[lo..hi] inserted one by one, in order, into the sorted array acc
RECURSIVE InsertRange(_, _, _, _, _)
InsertRange(acc, s, lo, hi, impl) ==
  IF lo > hi THEN acc
  ELSE IF lo = hi THEN InsertSorted(acc, s[lo], impl)
  ELSE LET mid == (lo + hi) \div 2
           left == InsertRange(acc, s, lo, mid, impl)
       IN  \* the left half is evaluated before the right half is entered
           IF Len(left) >= 0 THEN InsertRange(left, s, mid + 1, hi, impl) ELSE left

ArraySort(s, impl) == InsertRange(<< >>, s, 1, Len(s), impl)


(***************************************************************************)
(* Math.sin(2*PI*h/24) and Math.cos(2*PI*h/24) for an integer hour h, in   *)
(* thousandths.                                                            *)
(***************************************************************************)
SinMilli ==
  << 0, 259, 500, 707, 866, 966, 1000, 966, 866, 707, 500, 259,
     0, -259, -500, -707, -866, -966, -1000, -966, -866, -707, -500, -259 >>

hourSinOf(hour) == IF isFinite(hour) THEN Rat(SinMilli[(hour.n % 24) + 1], 1000) ELSE NaN
hourCosOf(hour) == IF isFinite(hour) THEN Rat(SinMilli[((hour.n + 6) % 24) + 1], 1000) ELSE NaN

\* createCyclicalFeatures(hour)
createCyclicalFeatures(hour) == [hour_sin |-> hourSinOf(hour), hour_cos |-> hourCosOf(hour)]

\* oneHotEncodeSeason with the autumn column compared to 'Winter'
oneHotEncodeSeason_autumnAsWinter(season) ==
  [season_spring |-> IF season = "Spring" THEN Num(1) ELSE Num(0),
   season_summer |-> IF season = "Summer" THEN Num(1) ELSE Num(0),
   season_autumn |-> IF season = "Winter" THEN Num(1) ELSE Num(0),
   season_winter |-> IF season = "Winter" THEN Num(1) ELSE Num(0)]

\* oneHotEncodeSeason(season)
oneHotEncodeSeason(season) ==
  [season_spring |-> IF season = "Spring" THEN Num(1) ELSE Num(0),
   season_summer |-> IF season = "Summer" THEN Num(1) ELSE Num(0),
   season_autumn |-> IF season = "Autumn" THEN Num(1) ELSE Num(0),
   season_winter |-> IF season = "Winter" THEN Num(1) ELSE Num(0)]

(***************************************************************************)
(* DataLoader, variants A and B (src/data-loader.js).                      *)
(***************************************************************************)
numericFeatures ==
  << "temperature", "humidity", "wind_speed", "visibility",
     "dew_point_temperature", "solar_radiation", "rainfall", "snowfall" >>

featureNamesAB ==
  << "temperature", "humidity", "wind_speed", "visibility",
     "dew_point_temperature", "solar_radiation", "rainfall", "snowfall",
     "hour_sin", "hour_cos", "holiday", "functioning_day",
     "season_spring", "season_summer", "season_autumn", "season_winter" >>

\* the callback of data.map in preprocessData; v is the variant
processRow(row, v) ==
  [date |-> IF v = "A" THEN getTimeDMY(row["Date"]) ELSE getTimeMDY(row["Date"]),
   hour |-> parseInt(row["Hour"]),
   rented_bike_count |-> parseInt(row["Rented Bike Count"]),
   temperature |-> parseFloat(row["Temperature(C)"]),
   humidity |-> parseFloat(row["Humidity(%)"]),
   wind_speed |-> parseFloat(row["Wind speed (m/s)"]),
   visibility |-> parseFloat(row["Visibility (10m)"]),
   dew_point_temperature |-> parseFloat(row["Dew point temperature(C)"]),
   solar_radiation |-> parseFloat(row["Solar Radiation (MJ/m2)"]),
   rainfall |-> parseFloat(row["Rainfall(mm)"]),
   snowfall |-> parseFloat(row["Snowfall (cm)"]),
   seasons |-> row["Seasons"],
   holiday |-> IF row["Holiday"] = "Holiday" THEN Num(1) ELSE Num(0),
   functioning_day |-> IF row["Functioning Day"] = "Yes" THEN Num(1) ELSE Num(0)]

\* the callback of .filter in preprocessData
isValidRow(row) ==
  /\ ~isNaN(row.rented_bike_count)
  /\ ~isNaN(row.temperature)
  /\ ~isNaN(row.humidity)
  /\ ~isNaN(row.wind_speed)
  /\ ~isNaN(row.visibility)
  /\ ~isNaN(row.dew_point_temperature)
  /\ ~isNaN(row.solar_radiation)
  /\ ~isNaN(row.rainfall)
  /\ ~isNaN(row.snowfall)

\* the rows handed to processed.sort(...)
filteredRows(data, v) ==
  LET mapped == Array([i \in 1..Len(data) |-> processRow(data[i], v)])
      keep == Array([i \in 1..Len(data) |-> isValidRow(mapped[i])])
  IN  FilterFrom(mapped, keep, 1)

\* preprocessData(data): the sorted rows, and whether it throws
preprocessData(data, v, impl) ==
  LET processed == ArraySort(filteredRows(data, v), impl)
  IN  [rows |-> processed, threw |-> (v = "A" /\ Len(processed) = 0)]

\* first loop of normalizeFeatures: this.normalizationParams
fitParams(data) ==
  Object([f \in {numericFeatures[k] : k \in 1..Len(numericFeatures)} |->
     LET all == Array([i \in 1..Len(data) |-> data[i][f]])
         values == FilterFrom(all, Array([i \in 1..Len(data) |-> ~isNaN(all[i])]), 1)
     IN  [min |-> MathMin(values), max |-> MathMax(values)]])

\* normalizeValue without the `range === 0` branch
normalizeValue_noGuard(x, params, v) ==
  LET range == jsSub(params.max, params.min)
      normalizedValue == jsDiv(jsSub(x, params.min), range)
  IN  IF v = "B" /\ (isNaN(normalizedValue) \/ ~isFinite(normalizedValue)) THEN Num(0)
      ELSE normalizedValue

\* the value normalizeFeatures stores for one feature of one row
normalizeValue(x, params, v) ==
  LET range == jsSub(params.max, params.min)
      normalizedValue == jsDiv(jsSub(x, params.min), range)
  IN  IF range = Num(0) THEN Num(0)
      ELSE IF v = "B" /\ (isNaN(normalizedValue) \/ ~isFinite(normalizedValue)) THEN Num(0)
      ELSE normalizedValue

\* second loop of normalizeFeatures: the callback of data.map
normalizeRow(row, params, v) ==
  LET cyclical == createCyclicalFeatures(row.hour)
      seasonEncoded == oneHotEncodeSeason(row.seasons)
  IN  [f \in {numericFeatures[k] : k \in 1..Len(numericFeatures)} |->
          normalizeValue(row[f], params[f], v)]
      @@ [hour_sin |-> cyclical.hour_sin, hour_cos |-> cyclical.hour_cos]
      @@ seasonEncoded
      @@ row

\* normalizeFeatures(data)
normalizeFeatures(data, v) ==
  LET params == fitParams(data)
  IN  [params |-> params,
       normalized |-> Array([i \in 1..Len(data) |-> normalizeRow(data[i], params, v)])]

\* a value copied into a window by createSequences
windowValue(x, v) == IF v = "B" /\ (isNaN(x) \/ ~isFinite(x)) THEN Num(0) ELSE x

\* for (let j = i - sequenceLength; j < i; j++) sequence.push(featureNames.map(...))
\* (the iterations j..i-1, taken by halves to keep the evaluation shallow)
RECURSIVE sequenceLoop(_, _, _, _, _)
sequenceLoop(data, names, j, i, v) ==
  IF j >= i THEN << >>
  ELSE IF j + 1 = i
       THEN << Array([c \in 1..Len(names) |-> windowValue(data[j + 1][names[c]], v)]) >>
  ELSE LET mid == (j + i) \div 2
       IN  sequenceLoop(data, names, j, mid, v) \o sequenceLoop(data, names, mid, i, v)

\* the label loop started one record early: label.push(data[j - 1]...)
RECURSIVE labelLoop_startsOneEarly(_, _, _, _, _)
labelLoop_startsOneEarly(data, labelName, j, end, v) ==
  IF j >= end THEN << >>
  ELSE IF j + 1 = end THEN <<windowValue(data[j][labelName], v)>>
  ELSE LET mid == (j + end) \div 2
       IN  labelLoop_startsOneEarly(data, labelName, j, mid, v)
           \o labelLoop_startsOneEarly(data, labelName, mid, end, v)

\* for (let j = i; j < i + predictionLength; j++) label.push(data[j].rented_bike_count)
RECURSIVE labelLoop(_, _, _, _, _)
labelLoop(data, labelName, j, end, v) ==
  IF j >= end THEN << >>
  ELSE IF j + 1 = end THEN <<windowValue(data[j + 1][labelName], v)>>
  ELSE LET mid == (j + end) \div 2
       IN  labelLoop(data, labelName, j, mid, v) \o labelLoop(data, labelName, mid, end, v)

\* loop body of createSequences for the 0-based start index i; rows is the
\* set of the 0-based record indices j that the two inner loops visit
windowAt(data, names, labelName, i, v) ==
  [sequence |-> sequenceLoop(data, names, i - sequenceLength, i, v),
   label |-> labelLoop(data, labelName, i, i + predictionLength, v),
   rows |-> ((i - sequenceLength)..(i - 1)) \cup (i..(i + predictionLength - 1))]

\* for (let i = sequenceLength; i < data.length - predictionLength; i++)
RECURSIVE windowsFrom(_, _, _, _, _)
windowsFrom(data, names, labelName, i, v) ==
  IF i < Len(data) - predictionLength
  THEN <<windowAt(data, names, labelName, i, v)>>
       \o windowsFrom(data, names, labelName, i + 1, v)
  ELSE << >>

\* createSequences(data)
createSequences(data, names, labelName, v) ==
  LET ws == windowsFrom(data, names, labelName, sequenceLength, v)
  IN  [sequences |-> Array([k \in 1..Len(ws) |-> ws[k].sequence]),
       labels |-> Array([k \in 1..Len(ws) |-> ws[k].label]),
       rows |-> Array([k \in 1..Len(ws) |-> ws[k].rows])]

\* splitData with the test slices starting one window after splitIndex
splitData_dropsBoundary(seqs, labs, trainPct) ==
  LET splitIndex == FloorFrac(Len(seqs), trainPct)
  IN  [trainData |-> [sequences |-> Slice(seqs, 0, splitIndex),
                      labels |-> Slice(labs, 0, splitIndex)],
       testData |-> [sequences |-> Slice(seqs, splitIndex + 1, Len(seqs)),
                     labels |-> Slice(labs, splitIndex + 1, Len(labs))]]

\* splitData(sequences, labels, testRatio), trainPct = 100 * (1 - testRatio)
splitData(seqs, labs, trainPct) ==
  LET splitIndex == FloorFrac(Len(seqs), trainPct)
  IN  [trainData |-> [sequences |-> Slice(seqs, 0, splitIndex),
                      labels |-> Slice(labs, 0, splitIndex)],
       testData |-> [sequences |-> Slice(seqs, splitIndex, Len(seqs)),
                     labels |-> Slice(labs, splitIndex, Len(labs))]]

(***************************************************************************)
(* DataLoader, variant U (src/unnamed/part_000).                           *)
(***************************************************************************)
featuresToNormalize ==
  << "temperature", "humidity", "windSpeed", "visibility",
     "dewPoint", "solarRadiation", "rainfall", "snowfall", "rentedBikeCount" >>

featureKeys ==
  << "hourSin", "hourCos", "temperature", "humidity", "windSpeed",
     "visibility", "dewPoint", "solarRadiation", "rainfall", "snowfall",
     "seasonSpring", "seasonSummer", "seasonAutumn", "seasonWinter",
     "holiday", "functioningDay", "rentedBikeCount" >>

\* the callback of this.rawData.map in preprocessData
processRowU(row) ==
  LET hour == parseInt(row["Hour"])
      seasons == row["Seasons"]
  IN  [date |-> getTimeDMY(row["Date"]),
       rentedBikeCount |-> parseFloat(row["Rented Bike Count"]),
       hourSin |-> hourSinOf(hour),
       hourCos |-> hourCosOf(hour),
       temperature |-> parseFloat(row["Temperature(C)"]),
       humidity |-> parseFloat(row["Humidity(%)"]),
       windSpeed |-> parseFloat(row["Wind speed (m/s)"]),
       visibility |-> parseFloat(row["Visibility (10m)"]),
       dewPoint |-> parseFloat(row["Dew point temperature(C)"]),
       solarRadiation |-> parseFloat(row["Solar Radiation (MJ/m2)"]),
       rainfall |-> parseFloat(row["Rainfall(mm)"]),
       snowfall |-> parseFloat(row["Snowfall (cm)"]),
       seasonSpring |-> IF seasons = "Spring" THEN Num(1) ELSE Num(0),
       seasonSummer |-> IF seasons = "Summer" THEN Num(1) ELSE Num(0),
       seasonAutumn |-> IF seasons = "Autumn" THEN Num(1) ELSE Num(0),
       seasonWinter |-> IF seasons = "Winter" THEN Num(1) ELSE Num(0),
       holiday |-> IF row["Holiday"] = "Holiday" THEN Num(1) ELSE Num(0),
       functioningDay |-> IF row["Functioning Day"] = "Yes" THEN Num(1) ELSE Num(0)]

\* this.scaleParams after normalizeFeatures()
fitScaleParams(data) ==
  Object([f \in {featuresToNormalize[k] : k \in 1..Len(featuresToNormalize)} |->
     LET values == Array([i \in 1..Len(data) |-> data[i][f]])
         min == MathMin(values)
         max == MathMax(values)
         diff == jsSub(max, min)
     IN  [min |-> min, max |-> max, range |-> IF Truthy(diff) THEN diff ELSE Num(1)]])

\* this.processedData after normalizeFeatures(): row[feature] = (row[feature] - min) / range
normalizeFeaturesU(data) ==
  LET params == fitScaleParams(data)
  IN  [params |-> params,
       normalized |-> Array([i \in 1..Len(data) |->
          [f \in {featuresToNormalize[k] : k \in 1..Len(featuresToNormalize)} |->
              jsDiv(jsSub(data[i][f], params[f].min), params[f].range)]
          @@ data[i]])]

\* denormalize without the `+ min`
denormalize_noOffset(normalizedValue, params) == jsMul(normalizedValue, params.range)

\* denormalize(normalizedValue, feature)
denormalize(normalizedValue, params) == jsAdd(jsMul(normalizedValue, params.range), params.min)

\* for (let j = i - sequenceLength; j < i; j++) sequence.push(featureKeys.map(...))
RECURSIVE sequenceLoopU(_, _, _)
sequenceLoopU(data, j, i) ==
  IF j >= i THEN << >>
  ELSE IF j + 1 = i
       THEN << Array([c \in 1..Len(featureKeys) |-> data[j + 1][featureKeys[c]]]) >>
  ELSE LET mid == (j + i) \div 2
       IN  sequenceLoopU(data, j, mid) \o sequenceLoopU(data, mid, i)

\* for (let j = i; j < i + sequenceLength; j++) label.push(...['rentedBikeCount'])
RECURSIVE labelLoopU(_, _, _)
labelLoopU(data, j, end) ==
  IF j >= end THEN << >>
  ELSE IF j + 1 = end THEN <<data[j + 1]["rentedBikeCount"]>>
  ELSE LET mid == (j + end) \div 2
       IN  labelLoopU(data, j, mid) \o labelLoopU(data, mid, end)

\* for (let i = sequenceLength; i < this.processedData.length - sequenceLength; i++)
RECURSIVE windowsFromU(_, _, _)
windowsFromU(data, seqLen, i) ==
  IF i < Len(data) - seqLen
  THEN << [sequence |-> sequenceLoopU(data, i - seqLen, i),
           label |-> labelLoopU(data, i, i + seqLen),
           rows |-> ((i - seqLen)..(i - 1)) \cup (i..(i + seqLen - 1))] >>
       \o windowsFromU(data, seqLen, i + 1)
  ELSE << >>

\* createSequences(sequenceLength)
createSequencesU(data, seqLen) ==
  LET ws == windowsFromU(data, seqLen, seqLen)
  IN  [sequences |-> Array([k \in 1..Len(ws) |-> ws[k].sequence]),
       labels |-> Array([k \in 1..Len(ws) |-> ws[k].label]),
       rows |-> Array([k \in 1..Len(ws) |-> ws[k].rows])]

\* tensors: tf.tensor3d(values) and tf.tensor2d(values) throw when values is
\* an empty array (no shape can be inferred)
NullTensor == [isNull |-> TRUE, isDisposed |-> FALSE, values |-> << >>]
tfTensor(values) == [isNull |-> FALSE, isDisposed |-> FALSE, values |-> values]
tfThrows(values) == values = << >>

\* splitData(trainSplit): the four slices, trainPct = 100 * trainSplit
splitSlicesU(seqs, labs, trainPct) ==
  LET splitIndex == FloorFrac(Len(seqs), trainPct)
  IN  [trainSequences |-> Slice(seqs, 0, splitIndex),
       trainLabels |-> Slice(labs, 0, splitIndex),
       testSequences |-> Slice(seqs, splitIndex, Len(seqs)),
       testLabels |-> Slice(labs, splitIndex, Len(labs))]

(***************************************************************************)
(* State.  One DataLoader of one variant and the load request that drives  *)
(* it: BikeDemandApp.loadData -> loadAndPreprocess (variants A and B),     *)
(* BikedemandApp.handleFileUpload -> loadCSV, preprocessData (variant U).  *)
(* Fields the constructors set to null are modelled by the empty value of  *)
(* their later type.  normalizedData, windowRows and splitPct are history  *)
(* variables: the array normalizeFeatures returns, the record indices each *)
(* window was read from, and the fraction last given to splitData.         *)
(***************************************************************************)
VARIABLES variant, sortImpl, input, pc, error, splitPct,
          rawData, processedData, normalizedData,
          normalizationParams, scaleParams, featureNames, numFeatures,
          sequences, labels, windowRows, trainData, testData,
          trainX, trainY, testX, testY, testActuals

\* The application around the DataLoader: BikedemandApp (src/app.js 7-321)
\* drives variant U, BikeDemandApp (src/app.js 341-778) variants A and B.
\*   dataLoader       BikedemandApp.dataLoader: "null" or "set"
\*   trainBtnDisabled the disabled flag of the train button
\*   isDataLoaded     BikeDemandApp.isDataLoaded
\*   appProcessedData BikeDemandApp.processedData
\*   loads            number of load requests made so far (history)
\*   firstFit         the min/max stored by the first fit on the current
\*                    file (history)
VARIABLES dataLoader, trainBtnDisabled, isDataLoaded, appProcessedData, loads, firstFit

\* One text line given to the line parsers and one row's categorical cells
\* given to the encoders, with their results:
\*   line, fields, parsedBy     the line, the fields made of it, and by whom
\*   cells, encoded, encodedBy  the cells, the columns made of them, and by whom
VARIABLES line, fields, parsedBy, cells, encoded, encodedBy

\* One file text given to the parsers and the hours of two consecutive rows
\* given to the cyclical encoding, with their results:
\*   csvLines   the lines of the text, csv.split('\n')
\*   csvRows    the row objects the parser made, or << >>
\*   csvKept    for each row object, the index of the line it was made of (history)
\*   csvError   the parser threw
\*   csvBy      the parser that ran
\*   hours, cyclical, cyclicalBy  the two hours, their encodings, and by whom
VARIABLES csvLines, csvRows, csvKept, csvError, csvBy, hours, cyclical, cyclicalBy

loaderVars == << variant, sortImpl, input, pc, error, splitPct,
                 rawData, processedData, normalizedData,
                 normalizationParams, scaleParams, featureNames, numFeatures,
                 sequences, labels, windowRows, trainData, testData,
                 trainX, trainY, testX, testY, testActuals >>

appVars == << dataLoader, trainBtnDisabled, isDataLoaded, appProcessedData, loads, firstFit >>

\* The objects the two applications hold over a session, as identities:
\*   loadDataBtnDisabled, predictBtnDisabled  the disabled flags of the buttons
\*   fileSelected    BikeDemandApp: csvFile.files[0] exists
\*   isModelTrained  BikeDemandApp.isModelTrained
\*   lstm            the LSTMModel held: its model (index into tfModels, 0 for
\*                   null) and its isCompiled flag; for BikedemandApp model = 0
\*                   stands for this.model = null
\*   tfModels        every tf model made so far: compiled, loaded, and the
\*                   number of dispose() calls it received
\*   loaderObjs      BikedemandApp: every DataLoader made so far: the rows its
\*                   parseCSV stored, its tensors (index into tensorSets, 0 for
\*                   null) and its numFeatures; this.dataLoader is the last one
\*   tensorSets      every group trainX, trainY, testX, testY made so far: the
\*                   load whose data it holds and the number of dispose() calls
\*   inFlight        the calls suspended at an await
\*   trainedOn       the load whose data the last completed training used (history)
\*   lastRead        what the last startTraining / makePrediction read (history)
\*   lastCall        the last call made on the LSTMModel and its outcome (history)
\*   trains, predicts  number of training and prediction requests so far (history)
VARIABLES loadDataBtnDisabled, predictBtnDisabled, fileSelected, isModelTrained,
          lstm, tfModels, loaderObjs, tensorSets, inFlight,
          trainedOn, lastRead, lastCall, trains, predicts

lifeVars == << loadDataBtnDisabled, predictBtnDisabled, fileSelected, isModelTrained,
               lstm, tfModels, loaderObjs, tensorSets, inFlight,
               trainedOn, lastRead, lastCall, trains, predicts >>

parseVars == << line, fields, parsedBy >>
encodeVars == << cells, encoded, encodedBy >>
csvVars == << csvLines, csvRows, csvKept, csvError, csvBy >>
hourVars == << hours, cyclical, cyclicalBy >>
textVars == << parseVars, encodeVars, csvVars, hourVars >>

vars == << loaderVars, appVars, textVars, lifeVars >>

Variants == {"A", "B", "U"}
\* train fractions given to splitData, in percent; DefaultPct is the default
DefaultPct == 80
SplitPcts == {0, 50, DefaultPct, 100}

NullData == [isNull |-> TRUE, sequences |-> << >>, labels |-> << >>]

\* the object loadAndPreprocess returns, and null in its place
LoadResult(train, test, names, params, processed) ==
  [isNull |-> FALSE, trainData |-> train, testData |-> test, featureNames |-> names,
   normalizationParams |-> params, rawData |-> processed]
NullResult ==
  [isNull |-> TRUE, trainData |-> NullData, testData |-> NullData, featureNames |-> << >>,
   normalizationParams |-> << >>, rawData |-> << >>]

\* no line and no cells
NoCells == [Seasons |-> "", Holiday |-> "", FunctioningDay |-> ""]

\* the state after `new BikedemandApp()` / `new BikeDemandApp()`
AppConstructed ==
  /\ dataLoader = IF variant = "U" THEN "null" ELSE "set"
  /\ trainBtnDisabled = TRUE
  /\ isDataLoaded = FALSE
  /\ appProcessedData = NullResult
  /\ loads = 0
  /\ firstFit = << >>

\* new LSTMModel() (src/app.js 786-790)
NewLSTMModel == [model |-> 0, isCompiled |-> FALSE]

NoCall == [op |-> "none", outcome |-> "none", held |-> 0, target |-> 0]
NoRead == [by |-> "none", loader |-> 0, ready |-> TRUE]

\* the state after the constructors and init() / initialize()
LifeIdle ==
  /\ loadDataBtnDisabled = TRUE
  /\ predictBtnDisabled = TRUE
  /\ fileSelected = FALSE
  /\ isModelTrained = FALSE
  /\ lstm = NewLSTMModel
  /\ tfModels = << >>
  /\ loaderObjs = << >>
  /\ tensorSets = << >>
  /\ inFlight = {}
  /\ trainedOn = 0
  /\ lastRead = NoRead
  /\ lastCall = NoCall
  /\ trains = 0
  /\ predicts = 0

TextIdle ==
  /\ line = << >>
  /\ fields = << >>
  /\ parsedBy = "none"
  /\ cells = NoCells
  /\ encoded = << >>
  /\ encodedBy = "none"
  /\ csvLines = << >>
  /\ csvRows = << >>
  /\ csvKept = << >>
  /\ csvError = FALSE
  /\ csvBy = "none"
  /\ hours = << >>
  /\ cyclical = << >>
  /\ cyclicalBy = "none"

\* the state after `new DataLoader()`
LoaderInit ==
  /\ pc = "idle"
  /\ error = "none"
  /\ splitPct = DefaultPct
  /\ rawData = << >>
  /\ processedData = << >>
  /\ normalizedData = << >>
  /\ normalizationParams = << >>
  /\ scaleParams = << >>
  /\ featureNames = << >>
  /\ numFeatures = 0
  /\ sequences = << >>
  /\ labels = << >>
  /\ windowRows = << >>
  /\ trainData = NullData
  /\ testData = NullData
  /\ trainX = NullTensor
  /\ trainY = NullTensor
  /\ testX = NullTensor
  /\ testY = NullTensor
  /\ testActuals = << >>

Init ==
  /\ variant \in Variants
  /\ sortImpl \in (IF variant = "U" THEN {"linearInsertion"} ELSE SortImpls)
  /\ input \in Inputs
  /\ LoaderInit
  /\ AppConstructed
  /\ TextIdle
  /\ LifeIdle

\* the first load request, up to reader.readAsText(file) in loadCSV(file):
\* the read is in flight (handleFileUpload has made its DataLoader)
LoadCSV ==
  /\ pc = "idle"
  /\ pc' = "reading"
  /\ dataLoader' = "set"
  /\ loads' = loads + 1
  /\ UNCHANGED << variant, sortImpl, input, error, splitPct, rawData, processedData,
                  normalizedData, normalizationParams, scaleParams, featureNames,
                  numFeatures, sequences, labels, windowRows, trainData, testData,
                  trainX, trainY, testX, testY, testActuals >>
  /\ UNCHANGED << trainBtnDisabled, isDataLoaded, appProcessedData, firstFit >>
  /\ UNCHANGED << textVars, lifeVars >>

\* reader.onload: the rows are stored and the promise resolves
ReaderOnLoad ==
  /\ pc = "reading"
  /\ rawData' = InputFile(input)
  /\ pc' = "loaded"
  /\ UNCHANGED << variant, sortImpl, input, error, splitPct, processedData,
                  normalizedData, normalizationParams, scaleParams, featureNames,
                  numFeatures, sequences, labels, windowRows, trainData, testData,
                  trainX, trainY, testX, testY, testActuals >>
  /\ UNCHANGED << appVars, textVars, lifeVars >>

\* reader.onerror: the promise rejects and the caller's catch block runs
ReaderOnError ==
  /\ pc = "reading"
  /\ pc' = "failed"
  /\ error' = "read"
  /\ UNCHANGED << variant, sortImpl, input, splitPct, rawData, processedData,
                  normalizedData, normalizationParams, scaleParams, featureNames,
                  numFeatures, sequences, labels, windowRows, trainData, testData,
                  trainX, trainY, testX, testY, testActuals >>
  /\ UNCHANGED << appVars, textVars, lifeVars >>

\* loadAndPreprocess after `await this.loadCSV(file)`: preprocessData,
\* normalizeFeatures, createSequences, splitData; then the rest of loadData,
\* which stores the result (or its catch block, which stores nothing)
LoadAndPreprocess ==
  /\ pc = "loaded"
  /\ variant \in {"A", "B"}
  /\ LET pre == preprocessData(rawData, variant, sortImpl)
         norm == normalizeFeatures(pre.rows, variant)
         cs == createSequences(norm.normalized, featureNamesAB, "rented_bike_count", variant)
         sp == splitData(cs.sequences, cs.labels, DefaultPct)
     IN  IF pre.threw
         THEN /\ pc' = "failed"
              /\ error' = "empty"
              /\ UNCHANGED << processedData, normalizedData, normalizationParams,
                              featureNames, sequences, labels, windowRows,
                              trainData, testData, splitPct >>
              /\ UNCHANGED << trainBtnDisabled, isDataLoaded, appProcessedData, firstFit >>
         ELSE /\ pc' = "done"
              /\ error' = "none"
              /\ processedData' = pre.rows
              /\ normalizedData' = norm.normalized
              /\ normalizationParams' = norm.params
              /\ featureNames' = featureNamesAB
              /\ sequences' = cs.sequences
              /\ labels' = cs.labels
              /\ windowRows' = cs.rows
              /\ trainData' = [isNull |-> FALSE] @@ sp.trainData
              /\ testData' = [isNull |-> FALSE] @@ sp.testData
              /\ splitPct' = DefaultPct
              /\ appProcessedData' =
                   LoadResult([isNull |-> FALSE] @@ sp.trainData,
                              [isNull |-> FALSE] @@ sp.testData,
                              featureNamesAB, norm.params, pre.rows)
              /\ isDataLoaded' = TRUE
              /\ trainBtnDisabled' = FALSE
              /\ firstFit' = IF firstFit = << >> THEN norm.params ELSE firstFit
  /\ UNCHANGED << variant, sortImpl, input, rawData, scaleParams, numFeatures,
                  trainX, trainY, testX, testY, testActuals >>
  /\ UNCHANGED << dataLoader, loads, textVars, lifeVars >>

\* splitData(this.sequences, this.labels, testRatio) called again
SplitData(pct) ==
  /\ pc = "done"
  /\ variant \in {"A", "B"}
  /\ LET sp == splitData(sequences, labels, pct)
     IN  /\ trainData' = [isNull |-> FALSE] @@ sp.trainData
         /\ testData' = [isNull |-> FALSE] @@ sp.testData
  /\ splitPct' = pct
  /\ UNCHANGED << variant, sortImpl, input, pc, error, rawData, processedData,
                  normalizedData, normalizationParams, scaleParams, featureNames,
                  numFeatures, sequences, labels, windowRows,
                  trainX, trainY, testX, testY, testActuals >>
  /\ UNCHANGED << appVars, textVars, lifeVars >>

\* the body of splitData(trainSplit) of variant U on the given windows:
\* the tensors are made in the order trainX, trainY, testX, testY, and the
\* first empty slice throws
SplitTensorsU(seqs, labs, params, pct) ==
  LET sl == splitSlicesU(seqs, labs, pct)
      trainThrows == tfThrows(sl.trainSequences)
      testThrows == tfThrows(sl.testSequences)
  IN  /\ trainX' = IF trainThrows THEN trainX ELSE tfTensor(sl.trainSequences)
      /\ trainY' = IF trainThrows THEN trainY ELSE tfTensor(sl.trainLabels)
      /\ testX' = IF trainThrows \/ testThrows THEN testX ELSE tfTensor(sl.testSequences)
      /\ testY' = IF trainThrows \/ testThrows THEN testY ELSE tfTensor(sl.testLabels)
      /\ testActuals' =
           IF trainThrows \/ testThrows THEN << >>
           ELSE Array([k \in 1..Len(sl.testLabels) |->
                   Array([j \in 1..Len(sl.testLabels[k]) |->
                      denormalize(sl.testLabels[k][j], params["rentedBikeCount"])])])
      /\ pc' = IF trainThrows \/ testThrows THEN "failed" ELSE "done"
      /\ error' = IF trainThrows \/ testThrows THEN "tensor" ELSE "none"
      /\ splitPct' = pct

\* handleFileUpload after `await this.dataLoader.loadCSV(file)`:
\* preprocessData(this.sequenceLength, 0.8), then the train button is
\* enabled (or the catch block runs, which leaves the button as it is)
PreprocessDataU ==
  /\ pc = "loaded"
  /\ variant = "U"
  /\ LET mapped == Array([i \in 1..Len(rawData) |-> processRowU(rawData[i])])
         norm == normalizeFeaturesU(mapped)
         cs == createSequencesU(norm.normalized, sequenceLength)
     IN  /\ processedData' = norm.normalized
         /\ normalizedData' = norm.normalized
         /\ scaleParams' = norm.params
         /\ numFeatures' = Len(featureKeys)
         /\ sequences' = cs.sequences
         /\ labels' = cs.labels
         /\ windowRows' = cs.rows
         /\ SplitTensorsU(cs.sequences, cs.labels, norm.params, DefaultPct)
         /\ firstFit' = IF firstFit = << >> THEN norm.params ELSE firstFit
  /\ trainBtnDisabled' = IF pc' = "done" THEN FALSE ELSE trainBtnDisabled
  /\ UNCHANGED << variant, sortImpl, input, rawData, normalizationParams,
                  featureNames, trainData, testData >>
  /\ UNCHANGED << dataLoader, isDataLoaded, appProcessedData, loads, textVars, lifeVars >>

\* splitData(trainSplit) called again
SplitDataU(pct) ==
  /\ pc = "done"
  /\ variant = "U"
  /\ SplitTensorsU(sequences, labels, scaleParams, pct)
  /\ UNCHANGED << variant, sortImpl, input, rawData, processedData, normalizedData,
                  normalizationParams, scaleParams, featureNames, numFeatures,
                  sequences, labels, windowRows, trainData, testData >>
  /\ UNCHANGED << appVars, textVars, lifeVars >>

Next ==
  \/ LoadCSV
  \/ ReaderOnLoad
  \/ ReaderOnError
  \/ LoadAndPreprocess
  \/ PreprocessDataU
  \/ \E pct \in SplitPcts : SplitData(pct)
  \/ \E pct \in SplitPcts : SplitDataU(pct)

Spec == Init /\ [][Next]_vars

(***************************************************************************)
(* A session: several load requests one after the other on one            *)
(* application, and further calls of the DataLoader's methods on a loaded  *)
(* DataLoader.                                                             *)
(***************************************************************************)
\* the files of a session: empty, one row, and enough rows for 2 or 3 windows
SessionInputs ==
  { [n |-> n, kind |-> "clean", pos |-> 1] : n \in {0, 1, 50, 51} }
  \cup { [n |-> 50, kind |-> "spike", pos |-> 1] }

SessionInit ==
  /\ variant \in Variants
  /\ sortImpl = "linearInsertion"
  /\ input \in SessionInputs
  /\ LoaderInit
  /\ AppConstructed
  /\ TextIdle
  /\ LifeIdle

\* the guard of startTraining (BikedemandApp): the button can be clicked
\* and `if (!this.dataLoader)` does not return
CanStartTraining == ~trainBtnDisabled /\ dataLoader = "set"

\* the guard of trainModel (BikeDemandApp): the button can be clicked and
\* `if (!this.isDataLoaded)` does not return
CanTrainModel == ~trainBtnDisabled /\ isDataLoaded

\* a later handleFileUpload, up to reader.readAsText(file):
\* this.dataLoader = new DataLoader() replaces the loader of the last request
HandleFileUploadAgain(in) ==
  /\ variant = "U"
  /\ pc \in {"done", "failed"}
  /\ loads < MaxLoads
  /\ input' = in
  /\ pc' = "reading"
  /\ error' = "none"
  /\ splitPct' = DefaultPct
  /\ rawData' = << >>
  /\ processedData' = << >>
  /\ normalizedData' = << >>
  /\ scaleParams' = << >>
  /\ numFeatures' = 0
  /\ sequences' = << >>
  /\ labels' = << >>
  /\ windowRows' = << >>
  /\ trainX' = NullTensor
  /\ trainY' = NullTensor
  /\ testX' = NullTensor
  /\ testY' = NullTensor
  /\ testActuals' = << >>
  /\ dataLoader' = "set"
  /\ loads' = loads + 1
  /\ firstFit' = << >>
  /\ UNCHANGED << variant, sortImpl, normalizationParams, featureNames, trainData, testData >>
  /\ UNCHANGED << trainBtnDisabled, isDataLoaded, appProcessedData, textVars, lifeVars >>

\* a later loadData, up to reader.readAsText(file) in loadCSV: the
\* application's one DataLoader is used again
LoadDataAgain(in) ==
  /\ variant \in {"A", "B"}
  /\ pc \in {"done", "failed"}
  /\ loads < MaxLoads
  /\ input' = in
  /\ pc' = "reading"
  /\ error' = "none"
  /\ loads' = loads + 1
  /\ firstFit' = << >>
  /\ UNCHANGED << variant, sortImpl, splitPct, rawData, processedData, normalizedData,
                  normalizationParams, scaleParams, featureNames, numFeatures,
                  sequences, labels, windowRows, trainData, testData,
                  trainX, trainY, testX, testY, testActuals >>
  /\ UNCHANGED << dataLoader, trainBtnDisabled, isDataLoaded, appProcessedData, textVars, lifeVars >>

\* normalizeFeatures() of variant U called again: it fits and scales
\* this.processedData, which the first call has scaled in place
NormalizeFeaturesAgainU ==
  /\ variant = "U"
  /\ pc = "done"
  /\ LET norm == normalizeFeaturesU(processedData)
     IN  /\ processedData' = norm.normalized
         /\ normalizedData' = norm.normalized
         /\ scaleParams' = norm.params
  /\ UNCHANGED << variant, sortImpl, input, pc, error, splitPct, rawData,
                  normalizationParams, featureNames, numFeatures,
                  sequences, labels, windowRows, trainData, testData,
                  trainX, trainY, testX, testY, testActuals >>
  /\ UNCHANGED << appVars, textVars, lifeVars >>

\* normalizeFeatures(this.processedData) of variants A and B called again
\* (pc records that the call was made)
NormalizeFeaturesAgain ==
  /\ variant \in {"A", "B"}
  /\ pc = "done"
  /\ pc' = "renormalized"
  /\ LET norm == normalizeFeatures(processedData, variant)
     IN  /\ normalizedData' = norm.normalized
         /\ normalizationParams' = norm.params
         /\ featureNames' = featureNamesAB
  /\ UNCHANGED << variant, sortImpl, input, error, splitPct, rawData, processedData,
                  scaleParams, numFeatures, sequences, labels, windowRows,
                  trainData, testData, trainX, trainY, testX, testY, testActuals >>
  /\ UNCHANGED << appVars, textVars, lifeVars >>

\* dispose() of variants A and B
Dispose ==
  /\ variant \in {"A", "B"}
  /\ pc = "done"
  /\ pc' = "disposed"
  /\ sequences' = << >>
  /\ labels' = << >>
  /\ trainData' = NullData
  /\ testData' = NullData
  /\ UNCHANGED << variant, sortImpl, input, error, splitPct, rawData, processedData,
                  normalizedData, normalizationParams, scaleParams, featureNames,
                  numFeatures, windowRows, trainX, trainY, testX, testY, testActuals >>
  /\ UNCHANGED << appVars, textVars, lifeVars >>

\* dispose() of variant U
DisposeU ==
  /\ variant = "U"
  /\ pc = "done"
  /\ pc' = "disposed"
  /\ trainX' = [trainX EXCEPT !.isDisposed = TRUE]
  /\ trainY' = [trainY EXCEPT !.isDisposed = TRUE]
  /\ testX' = [testX EXCEPT !.isDisposed = TRUE]
  /\ testY' = [testY EXCEPT !.isDisposed = TRUE]
  /\ UNCHANGED << variant, sortImpl, input, error, splitPct, rawData, processedData,
                  normalizedData, normalizationParams, scaleParams, featureNames,
                  numFeatures, sequences, labels, windowRows, trainData, testData,
                  testActuals >>
  /\ UNCHANGED << appVars, textVars, lifeVars >>

SessionNext ==
  \/ LoadCSV
  \/ ReaderOnLoad
  \/ ReaderOnError
  \/ LoadAndPreprocess
  \/ PreprocessDataU
  \/ \E pct \in SplitPcts : SplitData(pct)
  \/ \E pct \in SplitPcts : SplitDataU(pct)
  \/ \E in \in SessionInputs : HandleFileUploadAgain(in)
  \/ \E in \in SessionInputs : LoadDataAgain(in)
  \/ NormalizeFeaturesAgainU
  \/ NormalizeFeaturesAgain
  \/ Dispose
  \/ DisposeU

SessionSpec == SessionInit /\ [][SessionNext]_vars

(***************************************************************************)
(* Text lines and categorical cells: the line parsers of loadCSV and the   *)
(* one-hot encoders, applied to one line and to the cells of one row.      *)
(***************************************************************************)
Quote == "\""
Comma == ","
\* the characters of a line: a letter, the delimiter, the double quote
Chars == {"a", Comma, Quote}

RECURSIVE LinesOfLength(_)
LinesOfLength(n) ==
  IF n = 0 THEN { << >> }
  ELSE { Append(l, c) : l \in LinesOfLength(n - 1), c \in Chars }

Lines == UNION { LinesOfLength(n) : n \in 0..MaxLineLen }

\* the loop of parseCSVLine(line) from the 1-based position i on
RECURSIVE parseCSVLineFrom(_, _, _, _, _)
parseCSVLineFrom(text, i, result, current, inQuotes) ==
  IF i > Len(text) THEN Append(result, current)
  ELSE LET char == text[i]
       IN  IF char = Quote
           THEN parseCSVLineFrom(text, i + 1, result, current, ~inQuotes)
           ELSE IF char = Comma /\ ~inQuotes
           THEN parseCSVLineFrom(text, i + 1, Append(result, current), << >>, inQuotes)
           ELSE parseCSVLineFrom(text, i + 1, result, Append(current, char), inQuotes)

\* parseCSVLine(line) of src/unnamed/part_000
parseCSVLine(text) == parseCSVLineFrom(text, 1, << >>, << >>, FALSE)

\* String.prototype.split(',') from the 1-based position i on
RECURSIVE splitFrom(_, _, _, _)
splitFrom(text, i, result, current) ==
  IF i > Len(text) THEN Append(result, current)
  ELSE IF text[i] = Comma
       THEN splitFrom(text, i + 1, Append(result, current), << >>)
       ELSE splitFrom(text, i + 1, result, Append(current, text[i]))

\* lines[i].split(',') of loadCSV in src/data-loader.js (both classes)
splitOnCommas(text) == splitFrom(text, 1, << >>, << >>)

\* texts of the Seasons, Holiday and Functioning Day cells of one row
SeasonTexts == {"Spring", "Summer", "Autumn", "Winter", "winter", "Monsoon", ""}
HolidayTexts == {"Holiday", "No Holiday"}
FunctioningDayTexts == {"Yes", "No"}

CellChoices ==
  { [Seasons |-> se, Holiday |-> ho, FunctioningDay |-> fu] :
      se \in SeasonTexts, ho \in HolidayTexts, fu \in FunctioningDayTexts }

\* a raw row with the given categorical cells
RowWithCells(c) ==
  [RawRow(1, "clean", 1) EXCEPT !["Seasons"] = c.Seasons,
                                !["Holiday"] = c.Holiday,
                                !["Functioning Day"] = c.FunctioningDay]

\* the categorical columns preprocessData of src/unnamed/part_000 makes of a row
categoricalColumnsU(row) ==
  LET processed == processRowU(row)
  IN  [k \in {"seasonSpring", "seasonSummer", "seasonAutumn", "seasonWinter",
               "holiday", "functioningDay"} |-> processed[k]]

(***************************************************************************)
(* File texts.  A text is given by its lines, the result of split('\n');   *)
(* the lines are made of Chars, so trim() of a line or of a column name    *)
(* changes nothing, and trim() of the whole text removes the empty lines   *)
(* at its two ends.                                                        *)
(***************************************************************************)
FileLines == UNION { LinesOfLength(n) : n \in 0..MaxFileLineLen }

Files ==
  UNION { [1..n -> FileLines] : n \in 1..(1 + MaxDataLines) }

\* text.trim().split('\n')
trimmedLines(ls) ==
  LET full == { i \in 1..Len(ls) : ls[i] # << >> }
  IN  IF full = {} THEN << << >> >>
      ELSE LET first == CHOOSE i \in full : \A j \in full : i <= j
               last == CHOOSE i \in full : \A j \in full : j <= i
           IN  SubSeq(ls, first, last)

\* values.length >= headers.length in place of ===
keepsRow_atLeast(values, headers) == Len(values) >= Len(headers)

\* if (values.length === headers.length)
keepsRow(values, headers) == Len(values) = Len(headers)

\* headers.forEach((header, index) => { row[header] = values[index].trim(); })
rowObject(headers, values) ==
  Object([h \in { headers[k] : k \in 1..Len(headers) } |->
            values[CHOOSE k \in 1..Len(headers) :
                     headers[k] = h /\ \A k2 \in (k + 1)..Len(headers) : headers[k2] # h]])

\* values[index].trim() throws when values[index] is undefined
rowThrows(headers, values) == Len(values) < Len(headers)

RECURSIVE Ascending(_)
Ascending(S) ==
  IF S = {} THEN << >>
  ELSE LET m == CHOOSE i \in S : \A j \in S : i <= j
       IN  << m >> \o Ascending(S \ {m})

\* the rows made of the lines at the indices kept
parsedRows(headers, values, kept) ==
  LET order == Ascending(kept)
      threw == \E i \in kept : rowThrows(headers, values[i])
  IN  [error |-> threw,
       kept |-> IF threw THEN << >> ELSE order,
       rows |-> IF threw THEN << >>
                ELSE Array([k \in 1..Len(order) |-> rowObject(headers, values[order[k]])])]

\* reader.onload of loadCSV (src/data-loader.js): the loop over lines
loadCSVRows(ls) ==
  LET headers == splitOnCommas(ls[1])
      values == [i \in 1..Len(ls) |-> splitOnCommas(ls[i])]
      kept == { i \in 2..Len(ls) : ls[i] # << >> /\ keepsRow(values[i], headers) }
  IN  parsedRows(headers, values, kept)

\* parseCSV(text) (src/unnamed/part_000)
parseCSV(ls) ==
  LET lines == trimmedLines(ls)
      headers == splitOnCommas(lines[1])
      values == [i \in 1..Len(lines) |-> parseCSVLine(lines[i])]
      kept == { i \in 2..Len(lines) : keepsRow(values[i], headers) }
  IN  parsedRows(headers, values, kept)

(***************************************************************************)
(* Math.sin(2*PI*h/24) and Math.cos(2*PI*h/24) for an integer hour h,      *)
(* exactly.  The values lie in Q(sqrt 2, sqrt 3); << a, b, c, d >> stands  *)
(* for a + b*sqrt(2) + c*sqrt(3) + d*sqrt(6), and 1, sqrt 2, sqrt 3,       *)
(* sqrt 6 being linearly independent over Q, two such numbers are equal    *)
(* iff their coefficients are.  The encodings are kept in quarters         *)
(* (4*sin, 4*cos), whose coefficients are integers; SinMilli above holds   *)
(* the same values rounded to thousandths.                                 *)
(***************************************************************************)
SurdAdd(x, y) == << x[1] + y[1], x[2] + y[2], x[3] + y[3], x[4] + y[4] >>
SurdSub(x, y) == << x[1] - y[1], x[2] - y[2], x[3] - y[3], x[4] - y[4] >>
SurdMul(x, y) ==
  << x[1] * y[1] + 2 * x[2] * y[2] + 3 * x[3] * y[3] + 6 * x[4] * y[4],
     x[1] * y[2] + x[2] * y[1] + 3 * (x[3] * y[4] + x[4] * y[3]),
     x[1] * y[3] + x[3] * y[1] + 2 * (x[2] * y[4] + x[4] * y[2]),
     x[1] * y[4] + x[4] * y[1] + x[2] * y[3] + x[3] * y[2] >>
SurdNeg(x) == << -x[1], -x[2], -x[3], -x[4] >>

\* 4*sin(k*PI/12) for k = 0..6: 0, (sqrt6 - sqrt2), 2, 2*sqrt2, 2*sqrt3, (sqrt6 + sqrt2), 4
SinQuarters ==
  << << 0, 0, 0, 0 >>, << 0, -1, 0, 1 >>, << 2, 0, 0, 0 >>, << 0, 2, 0, 0 >>,
     << 0, 0, 2, 0 >>, << 0, 1, 0, 1 >>, << 4, 0, 0, 0 >> >>

\* 4*Math.sin(k*PI/12) for any integer k: sin(PI - x) = sin(x), sin(PI + x) = -sin(x)
sinTwelfths(k) ==
  LET r == k % 24
  IN  IF r <= 6 THEN SinQuarters[r + 1]
      ELSE IF r <= 12 THEN SinQuarters[(12 - r) + 1]
      ELSE IF r <= 18 THEN SurdNeg(SinQuarters[(r - 12) + 1])
      ELSE SurdNeg(SinQuarters[(24 - r) + 1])

\* the cosine taken a twelfth of a turn too early
cyclicalEncoding_skewed(hour) == [hour_sin |-> sinTwelfths(hour), hour_cos |-> sinTwelfths(hour + 5)]

\* { hour_sin: Math.sin(hourRad), hour_cos: Math.cos(hourRad) }, in quarters
cyclicalEncoding(hour) == [hour_sin |-> sinTwelfths(hour), hour_cos |-> sinTwelfths(hour + 6)]

\* the hours of two consecutive rows of a file in hourly order
HourPairs == { << h, (h + 1) % 24 >> : h \in 0..MaxHour }

TextInit ==
  /\ variant = "U"
  /\ sortImpl = "linearInsertion"
  /\ input = [n |-> 0, kind |-> "clean", pos |-> 1]
  /\ LoaderInit
  /\ AppConstructed
  /\ \/ line \in Lines /\ cells = NoCells /\ csvLines = << >> /\ hours = << >>
     \/ line = << >> /\ cells \in CellChoices /\ csvLines = << >> /\ hours = << >>
     \/ line = << >> /\ cells = NoCells /\ csvLines \in Files /\ hours = << >>
     \/ line = << >> /\ cells = NoCells /\ csvLines = << >> /\ hours \in HourPairs
  /\ fields = << >>
  /\ parsedBy = "none"
  /\ encoded = << >>
  /\ encodedBy = "none"
  /\ csvRows = << >>
  /\ csvKept = << >>
  /\ csvError = FALSE
  /\ csvBy = "none"
  /\ cyclical = << >>
  /\ cyclicalBy = "none"
  /\ LifeIdle

\* the input of the state is a line
LineGiven == cells = NoCells /\ csvLines = << >> /\ hours = << >>

\* values = this.parseCSVLine(lines[i])
ParseCSVLine ==
  /\ parsedBy = "none"
  /\ LineGiven
  /\ fields' = parseCSVLine(line)
  /\ parsedBy' = "parseCSVLine"
  /\ UNCHANGED << line, encodeVars, csvVars, hourVars, loaderVars, appVars, lifeVars >>

\* values = lines[i].split(',')
SplitLine ==
  /\ parsedBy = "none"
  /\ LineGiven
  /\ fields' = splitOnCommas(line)
  /\ parsedBy' = "split"
  /\ UNCHANGED << line, encodeVars, csvVars, hourVars, loaderVars, appVars, lifeVars >>

\* seasonEncoded = this.oneHotEncodeSeason(row.seasons)
OneHotEncodeSeason ==
  /\ encodedBy = "none"
  /\ cells # NoCells
  /\ encoded' = oneHotEncodeSeason(cells.Seasons)
  /\ encodedBy' = "oneHotEncodeSeason"
  /\ UNCHANGED << cells, parseVars, csvVars, hourVars, loaderVars, appVars, lifeVars >>

\* the one-hot columns of the map callback of preprocessData (variant U)
OneHotEncodeU ==
  /\ encodedBy = "none"
  /\ cells # NoCells
  /\ encoded' = categoricalColumnsU(RowWithCells(cells))
  /\ encodedBy' = "preprocessData"
  /\ UNCHANGED << cells, parseVars, csvVars, hourVars, loaderVars, appVars, lifeVars >>

\* reader.onload of loadCSV (src/data-loader.js) on the text
LoadCSVText ==
  /\ csvBy = "none"
  /\ csvLines # << >>
  /\ LET parsed == loadCSVRows(csvLines)
     IN  /\ csvRows' = parsed.rows
         /\ csvKept' = parsed.kept
         /\ csvError' = parsed.error
  /\ csvBy' = "loadCSV"
  /\ UNCHANGED << csvLines, parseVars, encodeVars, hourVars, loaderVars, appVars, lifeVars >>

\* this.parseCSV(text) (src/unnamed/part_000) on the text
ParseCSVText ==
  /\ csvBy = "none"
  /\ csvLines # << >>
  /\ LET parsed == parseCSV(csvLines)
     IN  /\ csvRows' = parsed.rows
         /\ csvKept' = parsed.kept
         /\ csvError' = parsed.error
  /\ csvBy' = "parseCSV"
  /\ UNCHANGED << csvLines, parseVars, encodeVars, hourVars, loaderVars, appVars, lifeVars >>

\* this.createCyclicalFeatures(row.hour) for the two rows (src/data-loader.js)
CreateCyclicalFeatures ==
  /\ cyclicalBy = "none"
  /\ hours # << >>
  /\ cyclical' = << cyclicalEncoding(hours[1]), cyclicalEncoding(hours[2]) >>
  /\ cyclicalBy' = "createCyclicalFeatures"
  /\ UNCHANGED << hours, parseVars, encodeVars, csvVars, loaderVars, appVars, lifeVars >>

\* hourSin, hourCos of the map callback of preprocessData for the two rows
\* (src/unnamed/part_000)
CyclicalEncodeU ==
  /\ cyclicalBy = "none"
  /\ hours # << >>
  /\ cyclical' = << cyclicalEncoding(hours[1]), cyclicalEncoding(hours[2]) >>
  /\ cyclicalBy' = "preprocessData"
  /\ UNCHANGED << hours, parseVars, encodeVars, csvVars, loaderVars, appVars, lifeVars >>

TextNext ==
  \/ ParseCSVLine
  \/ SplitLine
  \/ OneHotEncodeSeason
  \/ OneHotEncodeU
  \/ LoadCSVText
  \/ ParseCSVText
  \/ CreateCyclicalFeatures
  \/ CyclicalEncodeU

TextSpec == TextInit /\ [][TextNext]_vars

(***************************************************************************)
(* LSTMModel (src/app.js 785-1075; the class at 1280-1597 is the same).    *)
(* The methods are operators on the pair (the LSTMModel's fields, the tf   *)
(* models made so far); ModelSpec calls them in any order.                 *)
(***************************************************************************)
\* tf.sequential({...}) and tf.loadLayersModel(...)
NewTfModel == [compiled |-> FALSE, loaded |-> FALSE, disposals |-> 0]
LoadedTfModel == [compiled |-> FALSE, loaded |-> TRUE, disposals |-> 0]

\* createModel(sequenceLength, numFeatures)
createModel(l, ms) ==
  [lstm |-> [l EXCEPT !.model = Len(ms) + 1], tfModels |-> Append(ms, NewTfModel)]

\* compileModel(learningRate)
compileModel(l, ms) ==
  IF l.model = 0
  THEN [threw |-> TRUE, lstm |-> l, tfModels |-> ms]
  ELSE [threw |-> FALSE,
        lstm |-> [l EXCEPT !.isCompiled = TRUE],
        tfModels |-> [ms EXCEPT ![l.model].compiled = TRUE]]

\* the guard of train(...): throws unless isCompiled
trainThrows(l) == ~l.isCompiled

\* the guards of predict(inputData)
predictThrows(l) == l.model = 0 \/ ~l.isCompiled

\* loadModel(name) after `await tf.loadLayersModel(...)` has resolved
loadModelResolved(l, ms) ==
  [lstm |-> [model |-> Len(ms) + 1, isCompiled |-> TRUE],
   tfModels |-> Append(ms, LoadedTfModel)]

\* dispose() (src/app.js 1067-1074)
disposeModel(l, ms) ==
  [lstm |-> [model |-> 0, isCompiled |-> FALSE],
   tfModels |-> IF l.model # 0
                THEN [ms EXCEPT ![l.model].disposals = @ + 1]
                ELSE ms]

\* a call suspended at an await
Call(op, load, loader, model, tensors) ==
  [op |-> op, load |-> load, loader |-> loader, model |-> model, tensors |-> tensors]

CallMade(op, outcome, l, target) ==
  [op |-> op, outcome |-> outcome, held |-> l.model, target |-> target]

ModelInit ==
  /\ variant = "A"
  /\ sortImpl = "linearInsertion"
  /\ input = [n |-> 0, kind |-> "clean", pos |-> 1]
  /\ LoaderInit
  /\ AppConstructed
  /\ TextIdle
  /\ LifeIdle

restOfLife == << loadDataBtnDisabled, predictBtnDisabled, fileSelected, isModelTrained,
                 loaderObjs, tensorSets, trainedOn, lastRead, trains, predicts >>

CreateModel ==
  /\ Len(tfModels) < MaxModels
  /\ LET r == createModel(lstm, tfModels)
     IN  /\ lstm' = r.lstm
         /\ tfModels' = r.tfModels
         /\ lastCall' = CallMade("createModel", "returned", lstm, r.lstm.model)
  /\ UNCHANGED << inFlight, restOfLife, loaderVars, appVars, textVars >>

CompileModel ==
  /\ LET r == compileModel(lstm, tfModels)
     IN  /\ lstm' = r.lstm
         /\ tfModels' = r.tfModels
         /\ lastCall' = CallMade("compileModel", IF r.threw THEN "threw" ELSE "returned",
                                 lstm, lstm.model)
  /\ UNCHANGED << inFlight, restOfLife, loaderVars, appVars, textVars >>

\* train(...) up to `await this.model.fit(...)`; nothing of the LSTMModel
\* changes when fit settles
Train ==
  /\ lastCall' = CallMade("train", IF trainThrows(lstm) THEN "threw" ELSE "fit", lstm, lstm.model)
  /\ UNCHANGED << lstm, tfModels, inFlight, restOfLife, loaderVars, appVars, textVars >>

\* predict(inputData)
Predict ==
  /\ lastCall' = CallMade("predict", IF predictThrows(lstm) THEN "threw" ELSE "predict",
                          lstm, lstm.model)
  /\ UNCHANGED << lstm, tfModels, inFlight, restOfLife, loaderVars, appVars, textVars >>

\* loadModel(name) up to `await tf.loadLayersModel(...)`
LoadModel ==
  /\ Call("loadModel", 0, 0, 0, 0) \notin inFlight
  /\ inFlight' = inFlight \cup { Call("loadModel", 0, 0, 0, 0) }
  /\ lastCall' = CallMade("loadModel", "awaiting", lstm, 0)
  /\ UNCHANGED << lstm, tfModels, restOfLife, loaderVars, appVars, textVars >>

\* tf.loadLayersModel resolves
LoadModelResolves ==
  /\ Call("loadModel", 0, 0, 0, 0) \in inFlight
  /\ Len(tfModels) < MaxModels
  /\ inFlight' = inFlight \ { Call("loadModel", 0, 0, 0, 0) }
  /\ LET r == loadModelResolved(lstm, tfModels)
     IN  /\ lstm' = r.lstm
         /\ tfModels' = r.tfModels
         /\ lastCall' = CallMade("loadModel", "returned", lstm, r.lstm.model)
  /\ UNCHANGED << restOfLife, loaderVars, appVars, textVars >>

\* tf.loadLayersModel rejects: the catch block rethrows
LoadModelRejects ==
  /\ Call("loadModel", 0, 0, 0, 0) \in inFlight
  /\ inFlight' = inFlight \ { Call("loadModel", 0, 0, 0, 0) }
  /\ lastCall' = CallMade("loadModel", "threw", lstm, 0)
  /\ UNCHANGED << lstm, tfModels, restOfLife, loaderVars, appVars, textVars >>

DisposeModel ==
  /\ LET r == disposeModel(lstm, tfModels)
     IN  /\ lstm' = r.lstm
         /\ tfModels' = r.tfModels
         /\ lastCall' = CallMade("dispose", "returned", lstm, lstm.model)
  /\ UNCHANGED << inFlight, restOfLife, loaderVars, appVars, textVars >>

ModelNext ==
  \/ CreateModel
  \/ CompileModel
  \/ Train
  \/ Predict
  \/ LoadModel
  \/ LoadModelResolves
  \/ LoadModelRejects
  \/ DisposeModel

ModelSpec == ModelInit /\ [][ModelNext]_vars

(***************************************************************************)
(* The two applications over a session, with their handlers cut at every   *)
(* await.  A UI event runs its handler up to the first await; the call is  *)
(* then in flight until what it awaits settles, and other events run in    *)
(* between.  A click reaches its handler only when the button is enabled.  *)
(* Datasets are named by the number of the load that read them.            *)
(***************************************************************************)
\* a DataLoader of src/unnamed/part_000 after its constructor
NewLoader == [rawRows |-> "none", rowsOf |-> 0, tensors |-> 0, numFeatures |-> 0]

\* the contents of an uploaded file: enough rows for windows in both
\* partitions, or too few for any window
FileContents == {"good", "short"}

\* tf.tensor3d / tf.tensor2d of the windows of load k
NewTensors(k) == [load |-> k, disposals |-> 0]

\* new LSTMModel(sequenceLength, numFeatures) (src/app.js 1081-1123): buildModel compiles
BuiltTfModel == [compiled |-> TRUE, loaded |-> FALSE, disposals |-> 0]

\* the object loadAndPreprocess returns for load k
Dataset(k) == [NullResult EXCEPT !.isNull = FALSE, !.rawData = << k >>]
DatasetLoad(d) == IF d.isNull THEN 0 ELSE d.rawData[1]

\* this.dataLoader of BikedemandApp: the DataLoader made last
CurrentLoader == Len(loaderObjs)

\* a tensor or model on which dispose() has been called
TensorsDisposed(t) == t # 0 /\ tensorSets[t].disposals > 0
ModelDisposed(m) == m # 0 /\ tfModels[m].disposals > 0

Loading == { c \in inFlight : c.op \in {"handleFileUpload", "loadData"} }
Training == { c \in inFlight : c.op \in {"startTraining", "trainModel"} }
Predicting == { c \in inFlight : c.op = "makePrediction" }

LifeInit ==
  /\ variant \in {"A", "U"}
  /\ sortImpl = "linearInsertion"
  /\ input = [n |-> 0, kind |-> "clean", pos |-> 1]
  /\ LoaderInit
  /\ AppConstructed
  /\ TextIdle
  /\ LifeIdle

(***************************************************************************)
(* BikedemandApp (src/app.js 7-321) with the DataLoader and the LSTMModel  *)
(* it imports (src/unnamed/part_000, src/app.js 1080-1170).                *)
(***************************************************************************)
\* handleFileUpload up to `await this.dataLoader.loadCSV(file)`
HandleFileUpload ==
  /\ variant = "U"
  /\ loads < MaxLoads
  /\ loads' = loads + 1
  /\ loaderObjs' = Append(loaderObjs, NewLoader)
  /\ dataLoader' = "set"
  /\ inFlight' = inFlight \cup { Call("handleFileUpload", loads + 1, Len(loaderObjs) + 1, 0, 0) }
  /\ UNCHANGED << trainBtnDisabled, isDataLoaded, appProcessedData,
                  loadDataBtnDisabled, predictBtnDisabled, fileSelected,
                  isModelTrained, lstm, tfModels, tensorSets, trainedOn,
                  lastRead, lastCall, trains, predicts, firstFit, loaderVars,
                  textVars >>

\* reader.onload of the loader of call c, then handleFileUpload from
\* `this.dataLoader.preprocessData(...)` on: preprocessData runs on the
\* loader this.dataLoader holds now; splitData throws at tf.tensor3d([])
\* when there is no window, and the catch block only reports
UploadLoads(c, contents) ==
  /\ variant = "U"
  /\ c \in inFlight
  /\ c.op = "handleFileUpload"
  /\ inFlight' = inFlight \ {c}
  /\ LET parsed == [loaderObjs EXCEPT ![c.loader].rawRows = contents,
                                      ![c.loader].rowsOf = c.load]
         cur == CurrentLoader
     IN  IF parsed[cur].rawRows = "good"
         THEN /\ tensorSets' = Append(tensorSets, NewTensors(parsed[cur].rowsOf))
              /\ loaderObjs' = [parsed EXCEPT ![cur].tensors = Len(tensorSets) + 1,
                                              ![cur].numFeatures = Len(featureKeys)]
              /\ trainBtnDisabled' = FALSE
         ELSE /\ loaderObjs' = [parsed EXCEPT ![cur].numFeatures = Len(featureKeys)]
              /\ UNCHANGED << tensorSets, trainBtnDisabled >>
  /\ UNCHANGED << dataLoader, isDataLoaded, appProcessedData, loads,
                  loadDataBtnDisabled, predictBtnDisabled, fileSelected,
                  isModelTrained, lstm, tfModels, trainedOn, lastRead,
                  lastCall, trains, predicts, firstFit, loaderVars,
                  textVars >>

\* reader.onerror of the loader of call c: the catch block only reports
UploadFails(c) ==
  /\ variant = "U"
  /\ c \in inFlight
  /\ c.op = "handleFileUpload"
  /\ inFlight' = inFlight \ {c}
  /\ UNCHANGED << dataLoader, trainBtnDisabled, isDataLoaded,
                  appProcessedData, loads, loadDataBtnDisabled,
                  predictBtnDisabled, fileSelected, isModelTrained, lstm,
                  tfModels, loaderObjs, tensorSets, trainedOn, lastRead,
                  lastCall, trains, predicts, firstFit, loaderVars,
                  textVars >>

\* startTraining up to `await this.model.train(...)`.  fit throws at once
\* on null or disposed tensors and the catch block enables the train
\* button; whether the LSTMModel constructor accepts numFeatures = 0 is
\* left open (built).
StartTraining(built) ==
  /\ variant = "U"
  /\ ~trainBtnDisabled
  /\ dataLoader = "set"
  /\ trains < MaxTrains
  /\ trains' = trains + 1
  /\ predictBtnDisabled' = TRUE
  /\ LET cur == CurrentLoader
         t == loaderObjs[cur].tensors
         disposed == IF lstm.model # 0
                     THEN [tfModels EXCEPT ![lstm.model].disposals = @ + 1]
                     ELSE tfModels
         m == Len(tfModels) + 1
     IN  /\ built \/ loaderObjs[cur].numFeatures = 0
         /\ lastRead' = [by |-> "startTraining", loader |-> cur, ready |-> t # 0]
         /\ IF ~built
            THEN /\ tfModels' = disposed
                 /\ trainBtnDisabled' = FALSE
                 /\ UNCHANGED << lstm, inFlight >>
            ELSE /\ tfModels' = Append(disposed, BuiltTfModel)
                 /\ lstm' = [lstm EXCEPT !.model = m]
                 /\ IF t = 0 \/ TensorsDisposed(t)
                    THEN /\ trainBtnDisabled' = FALSE
                         /\ UNCHANGED inFlight
                    ELSE /\ trainBtnDisabled' = TRUE
                         /\ inFlight' = inFlight \cup
                              { Call("startTraining", tensorSets[t].load, cur, m, t) }
  /\ UNCHANGED << dataLoader, isDataLoaded, appProcessedData, loads,
                  loadDataBtnDisabled, fileSelected, isModelTrained,
                  loaderObjs, tensorSets, trainedOn, lastCall, predicts,
                  firstFit, loaderVars, textVars >>

\* fit of call c settles: onTrainEnd enables both buttons; a fit whose
\* model or tensors were disposed meanwhile may also reject, and the catch
\* block enables the train button
TrainingSettles(c, resolved) ==
  /\ variant = "U"
  /\ c \in inFlight
  /\ c.op = "startTraining"
  /\ resolved \/ ModelDisposed(c.model) \/ TensorsDisposed(c.tensors)
  /\ inFlight' = inFlight \ {c}
  /\ trainBtnDisabled' = FALSE
  /\ IF resolved
     THEN /\ predictBtnDisabled' = FALSE
          /\ trainedOn' = c.load
     ELSE UNCHANGED << predictBtnDisabled, trainedOn >>
  /\ UNCHANGED << dataLoader, isDataLoaded, appProcessedData, loads,
                  loadDataBtnDisabled, fileSelected, isModelTrained, lstm,
                  tfModels, loaderObjs, tensorSets, lastRead, lastCall,
                  trains, predicts, firstFit, loaderVars, textVars >>

\* makePrediction (BikedemandApp) up to `await predictionsTensor.array()`;
\* predict throws at once on null or disposed tensors or a disposed model
MakePredictionU ==
  /\ variant = "U"
  /\ ~predictBtnDisabled
  /\ lstm.model # 0
  /\ predicts < MaxPredicts
  /\ predicts' = predicts + 1
  /\ LET cur == CurrentLoader
         t == loaderObjs[cur].tensors
     IN  /\ lastRead' = [by |-> "makePrediction", loader |-> cur, ready |-> t # 0]
         /\ IF t = 0 \/ TensorsDisposed(t) \/ ModelDisposed(lstm.model)
            THEN UNCHANGED inFlight
            ELSE inFlight' = inFlight \cup
                   { Call("makePrediction", tensorSets[t].load, cur, lstm.model, t) }
  /\ UNCHANGED << dataLoader, trainBtnDisabled, isDataLoaded,
                  appProcessedData, loads, loadDataBtnDisabled,
                  predictBtnDisabled, fileSelected, isModelTrained, lstm,
                  tfModels, loaderObjs, tensorSets, trainedOn, lastCall,
                  trains, firstFit, loaderVars, textVars >>

\* makePrediction (BikedemandApp) after the await: the results are plotted
PredictionSettlesU(c) ==
  /\ variant = "U"
  /\ c \in inFlight
  /\ c.op = "makePrediction"
  /\ inFlight' = inFlight \ {c}
  /\ UNCHANGED << dataLoader, trainBtnDisabled, isDataLoaded,
                  appProcessedData, loads, loadDataBtnDisabled,
                  predictBtnDisabled, fileSelected, isModelTrained, lstm,
                  tfModels, loaderObjs, tensorSets, trainedOn, lastRead,
                  lastCall, trains, predicts, firstFit, loaderVars,
                  textVars >>

\* BikedemandApp.dispose(): DataLoader.dispose() and LSTMModel.dispose()
\* (src/app.js 1165-1169) call dispose() on whatever they hold
DisposeApp ==
  /\ variant = "U"
  /\ LET t == IF dataLoader = "set" THEN loaderObjs[CurrentLoader].tensors ELSE 0
     IN  /\ t # 0 \/ lstm.model # 0
         /\ t # 0 => tensorSets[t].disposals < MaxDisposals
         /\ lstm.model # 0 => tfModels[lstm.model].disposals < MaxDisposals
         /\ tensorSets' = IF t # 0 THEN [tensorSets EXCEPT ![t].disposals = @ + 1]
                          ELSE tensorSets
         /\ tfModels' = IF lstm.model # 0
                        THEN [tfModels EXCEPT ![lstm.model].disposals = @ + 1]
                        ELSE tfModels
  /\ UNCHANGED << dataLoader, trainBtnDisabled, isDataLoaded,
                  appProcessedData, loads, loadDataBtnDisabled,
                  predictBtnDisabled, fileSelected, isModelTrained, lstm,
                  loaderObjs, inFlight, trainedOn, lastRead, lastCall,
                  trains, predicts, firstFit, loaderVars, textVars >>

\* the change listener of csvFile (BikeDemandApp, src/app.js 405-410)
CsvFileChange ==
  /\ variant = "A"
  /\ fileSelected' = TRUE
  /\ loadDataBtnDisabled' = FALSE
  /\ UNCHANGED << dataLoader, trainBtnDisabled, isDataLoaded,
                  appProcessedData, loads, predictBtnDisabled,
                  isModelTrained, lstm, tfModels, loaderObjs, tensorSets,
                  inFlight, trainedOn, lastRead, lastCall, trains, predicts,
                  firstFit, loaderVars, textVars >>

\* loadData up to `await this.dataLoader.loadAndPreprocess(file)`; without
\* a file it throws and the catch block enables the button again
LoadData ==
  /\ variant = "A"
  /\ ~loadDataBtnDisabled
  /\ loads < MaxLoads
  /\ IF fileSelected
     THEN /\ loadDataBtnDisabled' = TRUE
          /\ loads' = loads + 1
          /\ inFlight' = inFlight \cup { Call("loadData", loads + 1, 0, 0, 0) }
     ELSE /\ loadDataBtnDisabled' = FALSE
          /\ UNCHANGED << loads, inFlight >>
  /\ UNCHANGED << dataLoader, trainBtnDisabled, isDataLoaded,
                  appProcessedData, predictBtnDisabled, fileSelected,
                  isModelTrained, lstm, tfModels, loaderObjs, tensorSets,
                  trainedOn, lastRead, lastCall, trains, predicts, firstFit,
                  loaderVars, textVars >>

\* loadAndPreprocess of call c settles
LoadSettles(c, resolved) ==
  /\ variant = "A"
  /\ c \in inFlight
  /\ c.op = "loadData"
  /\ inFlight' = inFlight \ {c}
  /\ IF resolved
     THEN /\ appProcessedData' = Dataset(c.load)
          /\ isDataLoaded' = TRUE
          /\ trainBtnDisabled' = FALSE
          /\ UNCHANGED loadDataBtnDisabled
     ELSE /\ loadDataBtnDisabled' = FALSE
          /\ UNCHANGED << appProcessedData, isDataLoaded, trainBtnDisabled >>
  /\ UNCHANGED << dataLoader, loads, predictBtnDisabled, fileSelected,
                  isModelTrained, lstm, tfModels, loaderObjs, tensorSets,
                  trainedOn, lastRead, lastCall, trains, predicts, firstFit,
                  loaderVars, textVars >>

\* trainModel up to `await this.model.train(...)`; reading a null
\* processedData throws and the catch block enables the train button
TrainModel ==
  /\ variant = "A"
  /\ ~trainBtnDisabled
  /\ isDataLoaded
  /\ trains < MaxTrains
  /\ trains' = trains + 1
  /\ IF appProcessedData.isNull
     THEN /\ trainBtnDisabled' = FALSE
          /\ UNCHANGED << tensorSets, lstm, tfModels, lastCall, inFlight >>
     ELSE LET d == DatasetLoad(appProcessedData)
              created == createModel(lstm, tfModels)
              compiled == compileModel(created.lstm, created.tfModels)
          IN  /\ trainBtnDisabled' = TRUE
              /\ tensorSets' = Append(tensorSets, NewTensors(d))
              /\ lstm' = compiled.lstm
              /\ tfModels' = compiled.tfModels
              /\ lastCall' = CallMade("train", "fit", compiled.lstm, compiled.lstm.model)
              /\ inFlight' = inFlight \cup
                   { Call("trainModel", d, 0, compiled.lstm.model, Len(tensorSets) + 1) }
  /\ UNCHANGED << dataLoader, isDataLoaded, appProcessedData, loads,
                  loadDataBtnDisabled, predictBtnDisabled, fileSelected,
                  isModelTrained, loaderObjs, trainedOn, lastRead, predicts,
                  firstFit, loaderVars, textVars >>

\* fit of call c settles.  Resolved: the flags are set and the four tensors
\* disposed.  A fit whose model was disposed meanwhile may also reject, and
\* the catch block enables the train button.
TrainSettles(c, resolved) ==
  /\ variant = "A"
  /\ c \in inFlight
  /\ c.op = "trainModel"
  /\ resolved \/ ModelDisposed(c.model)
  /\ inFlight' = inFlight \ {c}
  /\ IF resolved
     THEN /\ isModelTrained' = TRUE
          /\ predictBtnDisabled' = FALSE
          /\ trainedOn' = c.load
          /\ tensorSets' = [tensorSets EXCEPT ![c.tensors].disposals = @ + 1]
          /\ UNCHANGED trainBtnDisabled
     ELSE /\ trainBtnDisabled' = FALSE
          /\ UNCHANGED << isModelTrained, predictBtnDisabled, trainedOn, tensorSets >>
  /\ UNCHANGED << dataLoader, isDataLoaded, appProcessedData, loads,
                  loadDataBtnDisabled, fileSelected, lstm, tfModels,
                  loaderObjs, lastRead, lastCall, trains, predicts, firstFit,
                  loaderVars, textVars >>

\* makePrediction (BikeDemandApp) up to the awaits after model.predict;
\* reading a null processedData or a throwing predict ends in the catch and
\* finally blocks
MakePrediction ==
  /\ variant = "A"
  /\ ~predictBtnDisabled
  /\ isModelTrained
  /\ predicts < MaxPredicts
  /\ predicts' = predicts + 1
  /\ IF appProcessedData.isNull
     THEN /\ predictBtnDisabled' = FALSE
          /\ UNCHANGED << tensorSets, lastCall, inFlight >>
     ELSE LET d == DatasetLoad(appProcessedData)
          IN  /\ tensorSets' = Append(tensorSets, NewTensors(d))
              /\ IF predictThrows(lstm)
                 THEN /\ predictBtnDisabled' = FALSE
                      /\ lastCall' = CallMade("predict", "threw", lstm, lstm.model)
                      /\ UNCHANGED inFlight
                 ELSE /\ predictBtnDisabled' = TRUE
                      /\ lastCall' = CallMade("predict", "predict", lstm, lstm.model)
                      /\ inFlight' = inFlight \cup
                           { Call("makePrediction", d, 0, lstm.model, Len(tensorSets) + 1) }
  /\ UNCHANGED << dataLoader, trainBtnDisabled, isDataLoaded,
                  appProcessedData, loads, loadDataBtnDisabled, fileSelected,
                  isModelTrained, lstm, tfModels, loaderObjs, trainedOn,
                  lastRead, trains, firstFit, loaderVars, textVars >>

\* makePrediction (BikeDemandApp) after its awaits: the tensors are
\* disposed and the finally block enables the predict button
PredictionSettles(c) ==
  /\ variant = "A"
  /\ c \in inFlight
  /\ c.op = "makePrediction"
  /\ inFlight' = inFlight \ {c}
  /\ tensorSets' = [tensorSets EXCEPT ![c.tensors].disposals = @ + 1]
  /\ predictBtnDisabled' = FALSE
  /\ UNCHANGED << dataLoader, trainBtnDisabled, isDataLoaded,
                  appProcessedData, loads, loadDataBtnDisabled, fileSelected,
                  isModelTrained, lstm, tfModels, loaderObjs, trainedOn,
                  lastRead, lastCall, trains, predicts, firstFit, loaderVars,
                  textVars >>

\* reset() (BikeDemandApp)
Reset ==
  /\ variant = "A"
  /\ LET r == disposeModel(lstm, tfModels)
     IN  /\ lstm' = r.lstm
         /\ tfModels' = r.tfModels
  /\ isDataLoaded' = FALSE
  /\ isModelTrained' = FALSE
  /\ appProcessedData' = NullResult
  /\ fileSelected' = FALSE
  /\ loadDataBtnDisabled' = TRUE
  /\ trainBtnDisabled' = TRUE
  /\ predictBtnDisabled' = TRUE
  /\ UNCHANGED << dataLoader, loads, loaderObjs, tensorSets, inFlight,
                  trainedOn, lastRead, lastCall, trains, predicts, firstFit,
                  loaderVars, textVars >>

LifeNext ==
  \/ HandleFileUpload
  \/ \E c \in inFlight, contents \in FileContents : UploadLoads(c, contents)
  \/ \E c \in inFlight : UploadFails(c)
  \/ \E built \in BOOLEAN : StartTraining(built)
  \/ \E c \in inFlight, resolved \in BOOLEAN : TrainingSettles(c, resolved)
  \/ MakePredictionU
  \/ \E c \in inFlight : PredictionSettlesU(c)
  \/ DisposeApp
  \/ CsvFileChange
  \/ LoadData
  \/ \E c \in inFlight, resolved \in BOOLEAN : LoadSettles(c, resolved)
  \/ TrainModel
  \/ \E c \in inFlight, resolved \in BOOLEAN : TrainSettles(c, resolved)
  \/ MakePrediction
  \/ \E c \in inFlight : PredictionSettles(c)
  \/ Reset

LifeSpec == LifeInit /\ [][LifeNext]_vars

(***************************************************************************)
(* Vocabulary of the properties.                                           *)
(***************************************************************************)
\* createSequences has run (splitData of variant U may have thrown after it)
Sequenced == pc = "done" \/ (pc = "failed" /\ error = "tensor")

TrainSequences == IF variant = "U" THEN trainX.values ELSE trainData.sequences
TrainLabels == IF variant = "U" THEN trainY.values ELSE trainData.labels
TestSequences == IF variant = "U" THEN testX.values ELSE testData.sequences
TestLabels == IF variant = "U" THEN testY.values ELSE testData.labels

\* the records before normalization, in the order normalizeFeatures got them
UnnormalizedData ==
  IF variant = "U" THEN Array([i \in 1..Len(rawData) |-> processRowU(rawData[i])])
  ELSE processedData

ScaledFeatures ==
  IF variant = "U" THEN {featuresToNormalize[k] : k \in 1..Len(featuresToNormalize)}
  ELSE {numericFeatures[k] : k \in 1..Len(numericFeatures)}

FittedParams == IF variant = "U" THEN scaleParams ELSE normalizationParams

\* 0-based indices of the records read by the windows k (1-based) of the set ks
RecordsReadBy(ks) == UNION {windowRows[k] : k \in ks}

FeatureNamesUsed == IF variant = "U" THEN featureKeys ELSE featureNames
LabelNameUsed == IF variant = "U" THEN "rentedBikeCount" ELSE "rented_bike_count"

(***************************************************************************)
(* C1  Scaler fitting uses the training partition only: the stored min and *)
(* max of every scaled column equal the min and max over the records of    *)
(* the training partition (here, generously, every record that some        *)
(* training window reads).  Stated while the split of the load is in       *)
(* place and at least one training window exists.                          *)
(***************************************************************************)
C1_ScalerFitOnTrainOnly ==
  (pc = "done" /\ splitPct = DefaultPct /\ Len(TrainSequences) > 0) =>
    LET trainIdx == RecordsReadBy(1..Len(TrainSequences))
        data == UnnormalizedData
        keep == Array([i \in 1..Len(data) |-> (i - 1) \in trainIdx])
    IN  \A f \in ScaledFeatures :
          LET values == FilterFrom(Array([i \in 1..Len(data) |-> data[i][f]]), keep, 1)
          IN  /\ FittedParams[f].min = MathMin(values)
              /\ FittedParams[f].max = MathMax(values)

(***************************************************************************)
(* C2  Windows never span the train/test boundary: no record is read both  *)
(* by a training window and by a test window.                              *)
(***************************************************************************)
C2_NoRecordInBothPartitions ==
  pc = "done" =>
    LET nTrain == Len(TrainSequences)
    IN  RecordsReadBy(1..nTrain) \cap RecordsReadBy((nTrain + 1)..Len(sequences)) = {}

(***************************************************************************)
(* C3  Window count: M records give floor((M - L - H)/S) + 1 windows when  *)
(* M >= L + H and none otherwise (createSequences has no stride parameter: *)
(* consecutive windows start one record apart, S = 1).                     *)
(***************************************************************************)
C3_WindowCount ==
  Sequenced =>
    LET M == Len(normalizedData)
        L == sequenceLength
        H == predictionLength
    IN  Len(sequences) = IF M >= L + H THEN (M - L - H) + 1 ELSE 0

(***************************************************************************)
(* C4  Window alignment (variants A and U): the k-th window starts at      *)
(* record t = sequenceLength + k - 1 (0-based); its input block is the     *)
(* feature rows of records t-24 .. t-1 in order, its output block the      *)
(* labels of records t .. t+23 in order, and the two blocks read 48        *)
(* different, consecutive records.                                         *)
(***************************************************************************)
C4_WindowAlignment ==
  (Sequenced /\ variant \in {"A", "U"}) =>
    \A k \in 1..Len(sequences) :
      LET t == sequenceLength + k - 1
          names == FeatureNamesUsed
      IN  /\ Len(sequences[k]) = sequenceLength
          /\ \A j \in 1..sequenceLength :
               sequences[k][j] =
                 [c \in 1..Len(names) |-> normalizedData[(t - sequenceLength) + j][names[c]]]
          /\ Len(labels[k]) = predictionLength
          /\ \A j \in 1..predictionLength :
               labels[k][j] = normalizedData[t + j][LabelNameUsed]
          /\ windowRows[k] = (t - sequenceLength)..(t + predictionLength - 1)
          /\ Cardinality(windowRows[k]) = sequenceLength + predictionLength

\* C4 witness: a load of variant A that built several windows
C4_Witness == pc = "done" /\ variant = "A" /\ Len(sequences) >= 3

C6_AscendingOutput ==
  (pc = "done"
     /\ \A i \in 1..Len(processedData) :
          /\ isFinite(processedData[i].date)
          /\ variant # "U" => isFinite(processedData[i].hour)) =>
    \A i \in 1..(Len(processedData) - 1) :
      LET a == processedData[i]
          b == processedData[i + 1]
      IN  \/ jsLess(a.date, b.date)
          \/ /\ a.date = b.date
             /\ variant # "U" => ~jsLess(b.hour, a.hour)

(***************************************************************************)
(* C7  Finiteness: every record preprocessData keeps (variants A and B)    *)
(* has a finite label, finite numeric measurements, a finite hour and a    *)
(* finite timestamp.                                                       *)
(***************************************************************************)
C7_KeptRecordsFinite ==
  (pc = "done" /\ variant \in {"A", "B"}) =>
    \A i \in 1..Len(processedData) :
      LET row == processedData[i]
      IN  /\ isFinite(row.rented_bike_count)
          /\ \A k \in 1..Len(numericFeatures) : isFinite(row[numericFeatures[k]])
          /\ isFinite(row.hour)
          /\ isFinite(row.date)

(***************************************************************************)
(* C8  Malformed-row tolerance: when exactly one of totalRows >= 2 rows    *)
(* has a non-numeric value in a numeric column, a completed load holds     *)
(* totalRows - 1 records, and the bad row reaches no fitted min/max and no *)
(* window value.                                                           *)
(***************************************************************************)
C8_MalformedRowDropped ==
  (pc = "done"
     /\ Len(rawData) >= 2
     /\ Cardinality({i \in 1..Len(rawData) : rawData[i]["Temperature(C)"].kind = "text"}) = 1) =>
    /\ Len(processedData) = Len(rawData) - 1
    /\ \A f \in ScaledFeatures : ~isNaN(FittedParams[f].min) /\ ~isNaN(FittedParams[f].max)
    /\ \A k \in 1..Len(sequences) :
         \A j \in 1..Len(sequences[k]) :
           \A c \in 1..Len(sequences[k][j]) : ~isNaN(sequences[k][j][c])

(***************************************************************************)
(* C9  When zero rows survive validation the load fails: it does not       *)
(* complete with an empty record list.  (Variant U validates nothing, all  *)
(* its rows survive.)                                                      *)
(***************************************************************************)
C9_EmptyDatasetFails ==
  LET survivors == IF variant = "U" THEN Len(rawData)
                   ELSE Len(filteredRows(rawData, variant))
  IN  (pc = "done" /\ survivors = 0) => FALSE

(***************************************************************************)
(* C10  A load with fewer than lookback + horizon + 1 = 49 valid records   *)
(* ends in an error: it never completes with zero training windows.        *)
(***************************************************************************)
C10_TooFewRowsIsFatal ==
  (pc = "done" /\ splitPct = DefaultPct) =>
    /\ Len(processedData) >= sequenceLength + predictionLength + 1
    /\ Len(TrainSequences) >= 1

(***************************************************************************)
(* C11  All-or-nothing load: after a failed load request the application   *)
(* holds no partially built dataset that training can use.  In             *)
(* BikedemandApp (variant U) startTraining cannot pass its guards on the   *)
(* DataLoader the failed handleFileUpload left behind; in BikeDemandApp    *)
(* (variants A and B) processedData is null while isDataLoaded is false,   *)
(* and otherwise is the complete result of one load.                       *)
(***************************************************************************)
\* the last load request failed (a later splitData that throws is no load)
LoadFailed == pc = "failed" /\ (error # "tensor" \/ splitPct = DefaultPct)

\* BikeDemandApp.processedData is what one whole load of its records returns
OneConsistentDataset ==
  LET norm == normalizeFeatures(appProcessedData.rawData, variant)
      cs == createSequences(norm.normalized, featureNamesAB, "rented_bike_count", variant)
      sp == splitData(cs.sequences, cs.labels, DefaultPct)
  IN  appProcessedData =
        LoadResult([isNull |-> FALSE] @@ sp.trainData, [isNull |-> FALSE] @@ sp.testData,
                   featureNamesAB, norm.params, appProcessedData.rawData)

C11_AllOrNothingLoad ==
  LoadFailed =>
    /\ variant = "U" => ~CanStartTraining
    /\ variant # "U" =>
         IF isDataLoaded THEN OneConsistentDataset ELSE appProcessedData.isNull

(***************************************************************************)
(* C14  The fitted scaler is immutable: once min/max have been fitted on   *)
(* the file of a load, no later operation on the same DataLoader changes   *)
(* them, and (variant U) denormalize keeps mapping the normalized label of *)
(* every record back to the record's rental count.                         *)
(***************************************************************************)
C14_ScalerImmutable ==
  firstFit # << >> =>
    /\ FittedParams = firstFit
    /\ variant = "U" =>
         \A i \in 1..Len(processedData) :
           isFinite(UnnormalizedData[i].rentedBikeCount) =>
             denormalize(processedData[i].rentedBikeCount, scaleParams["rentedBikeCount"])
               = UnnormalizedData[i].rentedBikeCount

WindowStart(k) == CHOOSE r \in windowRows[k] : \A q \in windowRows[k] : r <= q
WindowAnchor(k) == WindowStart(k) + sequenceLength
\* the record indices of the output block of window k
OutputBlock(k) == WindowAnchor(k)..(WindowAnchor(k) + predictionLength - 1)

TrainWindows == 1..Len(TrainSequences)
TestWindows == (Len(TrainSequences) + 1)..Len(sequences)

(***************************************************************************)
(* C15  Stride policy: consecutive training windows start one record       *)
(* apart; consecutive test windows start horizon = 24 records apart, so    *)
(* the output blocks of two different test windows share no record.        *)
(***************************************************************************)
C15_StridePolicy ==
  pc = "done" =>
    /\ \A k \in TrainWindows :
         (k + 1) \in TrainWindows => WindowStart(k + 1) = WindowStart(k) + 1
    /\ \A k \in TestWindows :
         (k + 1) \in TestWindows => WindowStart(k + 1) = WindowStart(k) + predictionLength
    /\ \A k1, k2 \in TestWindows :
         k1 # k2 => OutputBlock(k1) \cap OutputBlock(k2) = {}

(***************************************************************************)
(* C16  Chronological ordering of windows: within the training windows and *)
(* within the test windows, the timestamp (date, hour) of the anchor       *)
(* record of window i+1 is strictly greater than that of window i.         *)
(***************************************************************************)
\* date and hour of the record at the anchor of window k (variant U keeps
\* no hour in its records: it is the hour parsed from the raw row)
AnchorDate(k) == normalizedData[WindowAnchor(k) + 1].date
AnchorHour(k) ==
  IF variant = "U" THEN parseInt(rawData[WindowAnchor(k) + 1]["Hour"])
  ELSE normalizedData[WindowAnchor(k) + 1].hour

AnchorBefore(k1, k2) ==
  /\ isFinite(AnchorDate(k1)) /\ isFinite(AnchorDate(k2))
  /\ isFinite(AnchorHour(k1)) /\ isFinite(AnchorHour(k2))
  /\ \/ jsLess(AnchorDate(k1), AnchorDate(k2))
     \/ AnchorDate(k1) = AnchorDate(k2) /\ jsLess(AnchorHour(k1), AnchorHour(k2))

C16_WindowsChronological ==
  pc = "done" =>
    /\ \A k \in TrainWindows : (k + 1) \in TrainWindows => AnchorBefore(k, k + 1)
    /\ \A k \in TestWindows : (k + 1) \in TestWindows => AnchorBefore(k, k + 1)

(***************************************************************************)
(* C17  Hand-off shape: the windows given to the training engine are       *)
(* rectangular, inputs [numWindows, 24, numFeatures] and labels            *)
(* [numWindows, 24] with the same numWindows, and every value is           *)
(* normalized: labels and min-max scaled columns lie in [0, 1], the other  *)
(* columns (sin, cos, 0/1 flags) in [-1, 1].                               *)
(***************************************************************************)
InUnitInterval(x) == isFinite(x) /\ 0 <= x.n /\ x.n <= x.d
InSignedUnitInterval(x) == isFinite(x) /\ -x.d <= x.n /\ x.n <= x.d

Rectangular(seqs, labs) ==
  /\ Len(seqs) = Len(labs)
  /\ \A k \in 1..Len(seqs) :
       /\ Len(seqs[k]) = sequenceLength
       /\ \A j \in 1..Len(seqs[k]) : Len(seqs[k][j]) = Len(FeatureNamesUsed)
       /\ Len(labs[k]) = predictionLength

AllNormalized(seqs, labs) ==
  \A k \in 1..Len(seqs) :
    /\ \A j \in 1..Len(seqs[k]) :
         \A c \in 1..Len(seqs[k][j]) :
           IF FeatureNamesUsed[c] \in ScaledFeatures
           THEN InUnitInterval(seqs[k][j][c])
           ELSE InSignedUnitInterval(seqs[k][j][c])
    /\ \A j \in 1..Len(labs[k]) : InUnitInterval(labs[k][j])

C17_HandOffShape ==
  pc = "done" =>
    /\ Rectangular(TrainSequences, TrainLabels)
    /\ Rectangular(TestSequences, TestLabels)
    /\ AllNormalized(TrainSequences, TrainLabels)
    /\ AllNormalized(TestSequences, TestLabels)

(***************************************************************************)
(* C18  Feature vector layout: the columns of every feature vector are, in *)
(* this order, the eight numeric fields, hour_sin, hour_cos, the one-hot   *)
(* columns of season, of holiday and of functioning day; the demand label  *)
(* is not a column.  (The encoders give season four columns and holiday    *)
(* and functioning day one column each.)                                   *)
(***************************************************************************)
ColumnKind(name) ==
  CASE name \in {"temperature", "humidity", "wind_speed", "windSpeed", "visibility",
                 "dew_point_temperature", "dewPoint", "solar_radiation",
                 "solarRadiation", "rainfall", "snowfall"} -> "numeric"
    [] name \in {"hour_sin", "hourSin"} -> "hour_sin"
    [] name \in {"hour_cos", "hourCos"} -> "hour_cos"
    [] name \in {"season_spring", "season_summer", "season_autumn", "season_winter",
                 "seasonSpring", "seasonSummer", "seasonAutumn", "seasonWinter"} -> "season"
    [] name = "holiday" -> "holiday"
    [] name \in {"functioning_day", "functioningDay"} -> "functioningDay"
    [] name \in {"rented_bike_count", "rentedBikeCount"} -> "label"
    [] OTHER -> "other"

SpecifiedLayout ==
  << "numeric", "numeric", "numeric", "numeric", "numeric", "numeric", "numeric", "numeric",
     "hour_sin", "hour_cos", "season", "season", "season", "season",
     "holiday", "functioningDay" >>

C18_FeatureLayout ==
  pc = "done" =>
    /\ [c \in 1..Len(FeatureNamesUsed) |-> ColumnKind(FeatureNamesUsed[c])] = SpecifiedLayout
    /\ \A c \in 1..Len(FeatureNamesUsed) : ColumnKind(FeatureNamesUsed[c]) # "label"
    /\ \A k \in 1..Len(sequences) :
         \A j \in 1..Len(sequences[k]) : Len(sequences[k][j]) = Len(SpecifiedLayout)

(***************************************************************************)
(* C19  One-hot encoding: for a vocabulary of k entries the encoder emits  *)
(* exactly k columns, column j being 1 iff the cell equals entry j and 0   *)
(* otherwise; so exactly one column is 1 for a cell in the vocabulary and  *)
(* every column is 0 for a cell outside it.  The vocabularies are those    *)
(* the encoders are written for: the four seasons, and for variant U also  *)
(* 'Holiday' and 'Yes'.                                                    *)
(***************************************************************************)
\* the encoder's vocabularies: field, cell, entries, and the column of each entry
Vocabularies ==
  IF encodedBy = "oneHotEncodeSeason"
  THEN { [cell |-> cells.Seasons,
          entries |-> << "Spring", "Summer", "Autumn", "Winter" >>,
          columns |-> << "season_spring", "season_summer", "season_autumn", "season_winter" >>] }
  ELSE { [cell |-> cells.Seasons,
          entries |-> << "Spring", "Summer", "Autumn", "Winter" >>,
          columns |-> << "seasonSpring", "seasonSummer", "seasonAutumn", "seasonWinter" >>],
         [cell |-> cells.Holiday, entries |-> << "Holiday" >>, columns |-> << "holiday" >>],
         [cell |-> cells.FunctioningDay, entries |-> << "Yes" >>,
          columns |-> << "functioningDay" >>] }

C19_OneHotEncoding ==
  encodedBy # "none" =>
    /\ DOMAIN encoded = UNION { { v.columns[j] : j \in 1..Len(v.columns) } : v \in Vocabularies }
    /\ \A v \in Vocabularies :
         LET k == Len(v.entries)
             ones == { j \in 1..k : encoded[v.columns[j]] = Num(1) }
         IN  /\ Len(v.columns) = k
             /\ \A j \in 1..k :
                  encoded[v.columns[j]] = IF v.cell = v.entries[j] THEN Num(1) ELSE Num(0)
             /\ (\E j \in 1..k : v.cell = v.entries[j]) => Cardinality(ones) = 1
             /\ (\A j \in 1..k : v.cell # v.entries[j]) => ones = {}

\* C19 witness: oneHotEncodeSeason has encoded a season outside its vocabulary
C19_Witness == encodedBy = "oneHotEncodeSeason" /\ cells.Seasons = "Monsoon"

(***************************************************************************)
(* C20  Quoted-field parsing: a line is split on the commas outside        *)
(* double quotes only, the quote flag toggling on each double quote; so    *)
(* the number of fields is one plus the number of commas outside quotes,   *)
(* and the commas inside quotes are characters of the fields.              *)
(***************************************************************************)
\* position i of the line is inside quotes: an odd number of quotes precede it
InsideQuotes(i) == Cardinality({ j \in 1..(i - 1) : line[j] = Quote }) % 2 = 1
CommasOutsideQuotes == { i \in 1..Len(line) : line[i] = Comma /\ ~InsideQuotes(i) }
CommasInsideQuotes == { i \in 1..Len(line) : line[i] = Comma /\ InsideQuotes(i) }

\* number of commas among the characters of the fields
RECURSIVE CommasIn(_, _)
CommasIn(fs, k) ==
  IF k > Len(fs) THEN 0
  ELSE Cardinality({ i \in 1..Len(fs[k]) : fs[k][i] = Comma }) + CommasIn(fs, k + 1)

C20_QuotedFieldParsing ==
  parsedBy # "none" =>
    /\ Len(fields) = 1 + Cardinality(CommasOutsideQuotes)
    /\ CommasIn(fields, 1) = Cardinality(CommasInsideQuotes)

(***************************************************************************)
(* C21  Rows whose field count differs from the header's are silently      *)
(* dropped by the parser: the parse does not fail, every row object it     *)
(* returns is made of a line with the header's number of fields, and has   *)
(* exactly the header's set of column names as keys.                       *)
(***************************************************************************)
\* the lines the parser that ran has looped over, its header names, and
\* the number of fields it finds in line i
LinesSeen == IF csvBy = "parseCSV" THEN trimmedLines(csvLines) ELSE csvLines
HeaderNames == splitOnCommas(LinesSeen[1])
FieldCount(i) ==
  IF csvBy = "parseCSV" THEN Len(parseCSVLine(LinesSeen[i])) ELSE Len(splitOnCommas(LinesSeen[i]))

C21_MismatchedRowsDropped ==
  csvBy # "none" =>
    /\ ~csvError
    /\ Len(csvRows) = Len(csvKept)
    /\ \A k \in 1..Len(csvKept) :
         /\ csvKept[k] \in 2..Len(LinesSeen)
         /\ FieldCount(csvKept[k]) = Len(HeaderNames)
         /\ \A k2 \in (k + 1)..Len(csvKept) : csvKept[k] < csvKept[k2]
    /\ \A k \in 1..Len(csvRows) :
         DOMAIN csvRows[k] = { HeaderNames[j] : j \in 1..Len(HeaderNames) }

\* C21 witness: a text of a header and two data lines, one with the header's
\* field count and one with another, has been parsed
C21_Witness ==
  /\ csvBy # "none"
  /\ Len(LinesSeen) = 3
  /\ Len(csvRows) = 1
  /\ \E i \in 2..3 : FieldCount(i) # Len(HeaderNames)

(***************************************************************************)
(* C26  Cyclical continuity: the Euclidean distance between the            *)
(* (hour_sin, hour_cos) encodings of two consecutive hours is the same for *)
(* all 24 consecutive pairs, the pair (23, 0) included.                    *)
(***************************************************************************)
\* the squared distance of two encodings (in sixteenths)
SquaredDistance(e1, e2) ==
  LET ds == SurdSub(e1.hour_sin, e2.hour_sin)
      dc == SurdSub(e1.hour_cos, e2.hour_cos)
  IN  SurdAdd(SurdMul(ds, ds), SurdMul(dc, dc))

\* 16 * (2 - 2*cos(PI/12)) = 32 - 8*sqrt(2) - 8*sqrt(6): the squared chord of a
\* twenty-fourth of a turn
StepSquared == << 32, -8, 0, -8 >>

C26_CyclicalContinuity ==
  cyclicalBy # "none" => SquaredDistance(cyclical[1], cyclical[2]) = StepSquared

\* C26 witness: the hours 23 and 0 have been encoded
C26_Witness == cyclicalBy # "none" /\ hours = << 23, 0 >>

(***************************************************************************)
(* C30  LSTMModel lifecycle guard: after any sequence of createModel,      *)
(* compileModel, loadModel and dispose calls, isCompiled is true only if   *)
(* the model held is non-null and has itself been compiled or loaded; so   *)
(* train and predict never call fit or predict on an uncompiled or         *)
(* disposed model; compileModel without a model, and train and predict     *)
(* after dispose, throw.                                                   *)
(***************************************************************************)
\* tf model k can be fitted and asked to predict
Usable(k) ==
  /\ k \in 1..Len(tfModels)
  /\ tfModels[k].compiled \/ tfModels[k].loaded
  /\ tfModels[k].disposals = 0

C30_LifecycleGuard ==
  /\ lstm.isCompiled => Usable(lstm.model)
  /\ lastCall.outcome \in {"fit", "predict"} => Usable(lastCall.target)
  /\ (lastCall.op = "compileModel" /\ lastCall.held = 0) => lastCall.outcome = "threw"
  /\ (lastCall.op \in {"train", "predict"} /\ lastCall.held = 0) => lastCall.outcome = "threw"

(***************************************************************************)
(* C22  Dispose before reload (BikedemandApp): whenever a load builds a    *)
(* new Dataset, the tensors of the Dataset built before have been released *)
(* first; so after any sequence of loads the tensors of at most one        *)
(* Dataset are live.                                                       *)
(***************************************************************************)
LiveTensors == { t \in 1..Len(tensorSets) : tensorSets[t].disposals = 0 }

C22_DisposeBeforeReload == variant = "U" => Cardinality(LiveTensors) <= 1

(***************************************************************************)
(* C23  Exactly-once release (BikedemandApp): every group of Dataset       *)
(* tensors and every model is disposed at most once, and exactly once as   *)
(* soon as it is superseded, i.e. no longer held by the application.       *)
(***************************************************************************)
HeldTensors == IF dataLoader = "set" THEN loaderObjs[CurrentLoader].tensors ELSE 0

C23_ExactlyOnceRelease ==
  variant = "U" =>
    /\ \A t \in 1..Len(tensorSets) :
         /\ tensorSets[t].disposals <= 1
         /\ t # HeldTensors => tensorSets[t].disposals = 1
    /\ \A m \in 1..Len(tfModels) :
         /\ tfModels[m].disposals <= 1
         /\ m # lstm.model => tfModels[m].disposals = 1

(***************************************************************************)
(* C24  No release while in flight: under any interleaving of UI events,   *)
(* the tensors and the model a training or prediction call uses are not    *)
(* disposed while that call has started and not yet finished.              *)
(***************************************************************************)
C24_NoReleaseInFlight ==
  \A c \in Training \cup Predicting :
    ~ModelDisposed(c.model) /\ ~TensorsDisposed(c.tensors)

(***************************************************************************)
(* C25  Loads are serialized: at any time at most one load is in flight; a *)
(* second load cannot start before the first has completed or failed.      *)
(***************************************************************************)
C25_LoadsSerialized == Cardinality(Loading) <= 1

(***************************************************************************)
(* C27  BikedemandApp: under any interleaving of upload, train-click and   *)
(* predict-click events, startTraining and makePrediction read the tensors *)
(* of a DataLoader whose loadCSV and preprocessData have both completed    *)
(* successfully: never null tensors.                                       *)
(***************************************************************************)
C27_ReadsFromLoadedLoader ==
  (variant = "U" /\ lastRead.by # "none") => lastRead.ready

(***************************************************************************)
(* C28  BikeDemandApp: in every reachable state, trainBtn enabled implies  *)
(* isDataLoaded and a non-null processedData, and predictBtn enabled       *)
(* implies isModelTrained and a model that is not disposed.                *)
(***************************************************************************)
C28_ButtonsFollowState ==
  variant = "A" =>
    /\ ~trainBtnDisabled => isDataLoaded /\ ~appProcessedData.isNull
    /\ ~predictBtnDisabled =>
         isModelTrained /\ lstm.model # 0 /\ ~ModelDisposed(lstm.model)

(***************************************************************************)
(* C29  BikeDemandApp: whenever isModelTrained is true, the model was      *)
(* trained on the dataset now held in processedData.                       *)
(***************************************************************************)
C29_TrainedOnCurrentData ==
  (variant = "A" /\ isModelTrained /\ ~appProcessedData.isNull) =>
    trainedOn = DatasetLoad(appProcessedData)

====
